---------------------------- MODULE Spec2Model ----------------------------
(***************************************************************************)
(* Model of the ParaYield backend: the portfolio backtest engine           *)
(* (BacktestService.runBacktest) and the quick simulation                  *)
(* (SimulationService.runSimulation).                                      *)
(*                                                                         *)
(* Numbers.  The code computes in IEEE doubles; the model computes in      *)
(* decimal fixed point, each quantity on its own grid:                     *)
(*   - USD amounts in units of 1e-5 USD (U per dollar); a value reported   *)
(*     through parseFloat(x.toFixed(4)) is rounded to 1e-4 by ToFixed4;    *)
(*   - allocation percentages and APY percentages in units of 0.001 %      *)
(*     (PCT per percent point);                                            *)
(*   - return / drawdown percentages in units of 1e-5 % (RP per percent    *)
(*     point), rounded to 1e-4 % by ToFixed4 where the code calls toFixed. *)
(* A quotient whose divisor is zero is NaN or +-Infinity as in JavaScript  *)
(* and is carried as a tagged value (Fin / NaN / Inf).                     *)
(* Calendar days are day numbers since an epoch; an instant is a number of *)
(* half days (HalfDaysPerDay per day), so that a timestamp can fall at     *)
(* 00:00 or at 12:00 UTC.  "YYYY-MM-DD" keys are the day numbers: their    *)
(* lexicographic order is the order of the day numbers.                    *)
(***************************************************************************)
EXTENDS Integers, Sequences, FiniteSets, TLC

\* ------------------------------------------------------------------ grids
U == 10 * 10000                  \* model units per USD (1e-5 USD)
PCT == 10 * 100                  \* model units per percent point (0.001 %)
RP == 10 * 10000                 \* return-percent units per percent point
HalfDaysPerDay == 1 + 1          \* instants per calendar day

\* ------------------------------------------------------------------ bounds
MaxDays == 4                     \* longest period, in calendar day points

\* -------------------------------------------------------- number helpers
Abs(x) == IF x < 0 THEN -x ELSE x
Sign(x) == IF x < 0 THEN -1 ELSE IF x > 0 THEN 1 ELSE 0
Min2(a, b) == IF a < b THEN a ELSE b
Max2(a, b) == IF a > b THEN a ELSE b

\* a*b = q*c + r for naturals a, b and c > 0, by doubling on b (no product
\* larger than 2*c + a is ever formed)
RECURSIVE MulDivQR(_, _, _)
MulDivQR(a, b, c) ==
    IF b = 0 THEN <<0, 0>>
    ELSE LET h == MulDivQR(a, b \div 2, c)
             t == 2 * h[2] + (IF b % 2 = 1 THEN a % c ELSE 0)
             e == IF b % 2 = 1 THEN a \div c ELSE 0
         IN  <<2 * h[1] + e + (t \div c), t % c>>

\* the real number a*b/c rounded to the nearest integer, halves away from 0
MulDiv(a, b, c) ==
    LET s == Sign(a) * Sign(b) * Sign(c)
        qr == MulDivQR(Abs(a), Abs(b), Abs(c))
    IN  s * (qr[1] + (IF 2 * qr[2] >= Abs(c) THEN 1 ELSE 0))

\* integer square root (floor)
RECURSIVE ISqrtFrom(_, _)
ISqrtFrom(x, s) == IF (s + 1) * (s + 1) > x THEN s ELSE ISqrtFrom(x, s + 1)
RECURSIVE ISqrt(_)
ISqrt(x) ==
    IF x < 4 THEN (IF x = 0 THEN 0 ELSE 1)
    ELSE ISqrtFrom(x, 2 * ISqrt(x \div 4))

\* tagged JavaScript numbers for quantities that can be NaN or infinite
Fin(v) == [k |-> "fin", v |-> v]
NaN == [k |-> "nan", v |-> 0]
Inf(s) == [k |-> "inf", v |-> s]
IsFinite(x) == x.k = "fin"

\* num / den * scale as JavaScript evaluates it: x/0 is NaN for x = 0 and
\* +-Infinity otherwise (den is +0 wherever the model divides)
DivJS(num, den, scale) ==
    IF den = 0
    THEN (IF num = 0 THEN NaN ELSE Inf(Sign(num)))
    ELSE Fin(MulDiv(num, scale, den))

\* a > b on tagged numbers: every comparison with NaN is false
GtJS(a, b) ==
    CASE a.k = "nan" \/ b.k = "nan" -> FALSE
      [] a.k = "inf" /\ b.k = "inf" -> a.v > b.v
      [] a.k = "inf" -> a.v > 0
      [] b.k = "inf" -> b.v < 0
      [] OTHER -> a.v > b.v

\* parseFloat(x.toFixed(4)) of an amount or percentage carried with five
\* decimals: the nearest multiple of 1e-4, halves away from zero
ToFixed4(x) == Sign(x) * (((Abs(x) + 5) \div 10) * 10)
ToFixed4JS(x) == IF x.k = "fin" THEN Fin(ToFixed4(x.v)) ELSE x

\* --------------------------------------------------------- optional values
\* an optional field of a DTO or of an upstream record: <<>> is undefined
Some(v) == <<v>>
None == <<>>
OrElse(opt, d) == IF opt = <<>> THEN d ELSE opt[1]

\* (integer addition, so the two halves are summed separately)
RECURSIVE SumSeq(_)
SumSeq(s) ==
    IF s = <<>> THEN 0
    ELSE IF Len(s) = 1 THEN s[1]
    ELSE SumSeq(SubSeq(s, 1, Len(s) \div 2))
         + SumSeq(SubSeq(s, Len(s) \div 2 + 1, Len(s)))

\* String.prototype.toLowerCase on the symbols the model uses
ToLower(s) ==
    CASE s = "vDOT" -> "vdot"
      [] s = "VDOT" -> "vdot"
      [] s = "HOLLAR" -> "hollar"
      [] s = "vKSM" -> "vksm"
      [] s = "Bifrost" -> "bifrost"
      [] OTHER -> s

\* ------------------------------------------------- program constants
PctTolerance == 10                      \* 0.01 percent points
DefaultXcmFeeTenths == 5                \* xcmFeeUsd = 0.5
DefaultXcmFeeUsd == (DefaultXcmFeeTenths * U) \div 10
ApyDen == PCT * 100 * 365               \* apy / 100 / 365 on the APY grid

\* ------------------------------------------------- the pools data server
\* one PoolHistoryRecord of GET /pools/history; dataTimestamp is an instant
HistRec(proto, asset, ts, total, supply, reward) ==
    [protocol |-> proto, assetSymbol |-> asset, dataTimestamp |-> ts,
     totalApy |-> total, supplyApy |-> supply, rewardApy |-> reward]
\* one PoolData of GET /pools
PoolRec(proto, asset, apy) ==
    [protocol |-> proto, assetSymbol |-> asset, totalApy |-> apy]

\* every yield is 0 %
WorldZero ==
    [history |-> << HistRec("bifrost", "vDOT", 0, Some(0), 0, None),
                    HistRec("hydration", "HOLLAR", 2, Some(0), 0, None) >>,
     pools |-> << PoolRec("bifrost", "vDOT", 0),
                  PoolRec("hydration", "HOLLAR", 0) >>]
\* bifrost grows 10 % a day from a record dated day 1 (asset spelled in
\* upper case, no totalApy) and 1 % a day from day 3 on; hydration grows
\* 10 % a day, then loses 10 % a day from day 2 on, by a record whose
\* totalApy differs from its supplyApy + rewardApy
WorldMoving ==
    [history |-> << HistRec("bifrost", "VDOT", 2, None, 3650 * PCT, None),
                    HistRec("bifrost", "VDOT", 6, None, 365 * PCT, None),
                    HistRec("hydration", "HOLLAR", 0, Some(3650 * PCT), 0, None),
                    HistRec("hydration", "HOLLAR", 5, Some(-3650 * PCT),
                            365 * PCT, Some(365 * PCT)) >>,
     pools |-> << PoolRec("Bifrost", "VDOT", 3650 * PCT),
                  PoolRec("hydration", "HOLLAR", 365 * PCT) >>]
\* the server knows nothing
WorldEmpty == [history |-> <<>>, pools |-> <<>>]
Worlds == {WorldZero, WorldMoving, WorldEmpty}

\* ------------------------------------------------- requests
Alloc(proto, asset, pct, ptype) ==
    [protocol |-> proto, assetSymbol |-> asset, percentage |-> pct,
     poolType |-> ptype]

AllocSingle == << Alloc("bifrost", "vDOT", 100 * PCT, None) >>
AllocSplit == << Alloc("bifrost", "vDOT", 60 * PCT, Some("vstaking")),
                 Alloc("hydration", "HOLLAR", 40 * PCT, Some("dex")) >>
\* sums to 100.005; vKSM has no upstream record
AllocNear == << Alloc("bifrost", "vDOT", 50 * PCT, None),
                Alloc("bifrost", "vKSM", 50 * PCT + 5, Some("farming")) >>
\* sums to 50
AllocHalf == << Alloc("hydration", "HOLLAR", 50 * PCT, Some("dex")) >>
\* sums to 100.02
AllocOver == << Alloc("bifrost", "vDOT", 60 * PCT, None),
                Alloc("hydration", "HOLLAR", 40 * PCT + 20, None) >>
AllocLists == {AllocSingle, AllocSplit, AllocNear, AllocHalf, AllocOver}

FromInstants == {0, 1}
ToInstants == {0, 1} \cup {HalfDaysPerDay * d : d \in 1..(MaxDays - 1)}

\* requests over long ranges: series of as many daily points as the
\* downsampling cap (500), two more, one less than twice the cap, and twice
\* the cap
LongSeriesLengths == {500, 502, 999, 1000}
LongRequests ==
    [initialAmountUsd : {2 * U},
     from : {0},
     to : {HalfDaysPerDay * (n - 1) : n \in LongSeriesLengths},
     allocations : {AllocSingle},
     rebalanceIntervalDays : {None},
     includeIL : {None},
     xcmFeeUsd : {None}]

BacktestRequests ==
    [initialAmountUsd : {0, 2 * U, 5 * U + 4},
     from : FromInstants,
     to : ToInstants,
     allocations : AllocLists,
     rebalanceIntervalDays : {None, Some(1), Some(2)},
     includeIL : {None, Some(TRUE)},
     xcmFeeUsd : {None, Some(0), Some(U)}]

\* ------------------------------------------------- BacktestService helpers
PercentageSum(allocations) ==
    SumSeq([j \in 1..Len(allocations) |-> allocations[j].percentage])

\* a validation that only looks at the upper end of the range
BacktestSumRejectedUpperOnly(allocations) ==
    PercentageSum(allocations) > 100 * PCT + PctTolerance

\* the allocation-sum validation of runBacktest: the outer range test, then
\* the absolute difference
BacktestSumRejected(allocations) ==
    LET total == PercentageSum(allocations)
    IN  /\ (total > 100 * PCT + PctTolerance \/ total < 100 * PCT - PctTolerance)
        /\ Abs(total - 100 * PCT) > PctTolerance

\* a date validation that lets from = to through
DatesRejectedStrict(from, to) == from > to

\* fromDate >= toDate
DatesRejected(from, to) == from >= to

DayOf(instant) == instant \div HalfDaysPerDay

\* buildDayList: the cursor starts at `start` and advances one day at a time
\* while cursor <= end, which visits (end - start) \div one day + 1 days
buildDayList(start, end) ==
    LET count == IF start <= end
                 THEN (end - start) \div HalfDaysPerDay + 1
                 ELSE 0
    IN  [k \in 1..count |-> DayOf(start + (k - 1) * HalfDaysPerDay)]

EmptyMap == [d \in {} |-> 0]

\* the APY a history record stands for
RecordApy(rec) ==
    IF rec.totalApy # None
    THEN rec.totalApy[1]
    ELSE rec.supplyApy + OrElse(rec.rewardApy, 0)

\* buildApyMap: day key -> APY, a later record of the same day wins
RECURSIVE buildApyMapFrom(_, _)
buildApyMapFrom(records, map) ==
    IF records = <<>> THEN map
    ELSE LET rec == Head(records)
             dateKey == DayOf(rec.dataTimestamp)
         IN  buildApyMapFrom(Tail(records),
                 [d \in (DOMAIN map) \cup {dateKey} |->
                     IF d = dateKey THEN RecordApy(rec) ELSE map[d]])
buildApyMap(records) == buildApyMapFrom(records, EmptyMap)

SetMax(S) == CHOOSE m \in S : \A o \in S : o <= m
SetMin(S) == CHOOSE m \in S : \A o \in S : m <= o

\* a lookup that gives 0 for a day before the first key
getApyForDayPastOnly(map, dateStr) ==
    IF dateStr \in DOMAIN map THEN map[dateStr]
    ELSE LET past == {k \in DOMAIN map : k <= dateStr}
         IN  IF past # {} THEN map[SetMax(past)] ELSE 0

\* getApyForDay: exact match, else nearest past key, else first key, else 0
getApyForDay(map, dateStr) ==
    IF dateStr \in DOMAIN map THEN map[dateStr]
    ELSE IF DOMAIN map = {} THEN 0
    ELSE LET past == {k \in DOMAIN map : k <= dateStr}
         IN  IF past # {} THEN map[SetMax(past)]
             ELSE map[SetMin(DOMAIN map)]

Protocols(states) == {states[j].protocol : j \in 1..Len(states)}

countCrossChainHops(states) == Max2(0, Cardinality(Protocols(states)) - 1)


\* ------------------------------------------------- impermanent loss
\* |d| capped at SatDev before squaring: a deviation of 1600 % or more
\* already puts the standard deviation above the 100 % at which the drift is
\* capped, for any sample count below 256
SatDev == 16 * 1000
SqSat(d) == IF Abs(d) >= SatDev THEN SatDev * SatDev ELSE d * d

\* a price ratio that assumes a 10 % drift whatever the samples are
estimatePriceRatioDrifted(days, apySamples) == 11000

\* estimatePriceRatio, on a 1e-4 grid: 1 + min(0.3, stdDev/100 * 0.3) with
\* the population standard deviation of the APY samples (samples taken in
\* units of 0.1 %)
estimatePriceRatio(days, apySamples) ==
    IF Len(apySamples) < 2 THEN 10000
    ELSE LET n == Len(apySamples)
             w == [j \in 1..n |-> MulDiv(apySamples[j], 10, PCT)]
             total == SumSeq(w)
             sq == [j \in 1..n |-> SqSat(MulDiv(n * w[j] - total, 1, n))]
             variance == MulDiv(SumSeq(sq), 1, n)
             stdDev == ISqrt(variance)
             drift == Min2(3000, 3 * stdDev)
         IN  10000 + drift

\* calculateIL, on a 1e-4 grid: 2*sqrt(r)/(1+r) - 1, and 0 for r <= 0
calculateIL(priceRatio) ==
    IF priceRatio <= 0 THEN 0
    ELSE MulDiv(2 * ISqrt(priceRatio * 10000), 10000, 10000 + priceRatio) - 10000

IsLiquidityPool(poolType) == poolType = "dex" \/ poolType = "farming"

\* an impermanent-loss pass that does not look at the pool type
ApplyILEveryPool(state) ==
    LET il == calculateIL(estimatePriceRatio(Len(state.apySamples),
                                             state.apySamples))
        ilLoss == MulDiv(state.valueUsd, Abs(il), 10000)
    IN  [state EXCEPT !.ilLossUsd = ToFixed4(ilLoss),
                      !.valueUsd = state.valueUsd - ilLoss]

\* an impermanent-loss pass that reports the loss without deducting it
ApplyILKeepValue(state) ==
    IF state.poolType = "dex" \/ state.poolType = "farming"
    THEN LET il == calculateIL(estimatePriceRatio(Len(state.apySamples),
                                                  state.apySamples))
         IN  [state EXCEPT !.ilLossUsd =
                  ToFixed4(MulDiv(state.valueUsd, Abs(il), 10000))]
    ELSE state

\* the impermanent-loss pass over one allocation state
ApplyIL(state) ==
    IF IsLiquidityPool(state.poolType)
    THEN LET il == calculateIL(estimatePriceRatio(Len(state.apySamples),
                                                  state.apySamples))
             ilLoss == MulDiv(state.valueUsd, Abs(il), 10000)
         IN  [state EXCEPT !.ilLossUsd = ToFixed4(ilLoss),
                           !.valueUsd = state.valueUsd - ilLoss]
    ELSE state

\* ------------------------------------------------- Sharpe ratio
\* calcSharpe.  dailyReturns are tagged numbers (the recorded dailyReturnPct
\* divided by 100).  The magnitude of a finite non-zero ratio is not
\* modelled: the result is Fin(0), Fin(+-1) for a finite non-zero ratio of
\* that sign, or NaN.  A NaN or infinite sample makes the mean, the variance
\* and the standard deviation NaN, which is not === 0, and the ratio NaN.
\* mean - rfDaily has the sign of 73 * sum - n * 0.01, as
\* RISK_FREE_RATE / 365 = 0.01 / 73.
RiskFreeBasisPoints == 500              \* RISK_FREE_RATE = 0.05
calcSharpe(dailyReturns) ==
    IF Len(dailyReturns) < 2 THEN Fin(0)
    ELSE IF \E j \in 1..Len(dailyReturns) : ~IsFinite(dailyReturns[j]) THEN NaN
    ELSE LET n == Len(dailyReturns)
             r == [j \in 1..n |-> dailyReturns[j].v \div 10]
             total == SumSeq(r)
             stdDevIsZero == \A j \in 1..n : n * r[j] - total = 0
         IN  IF stdDevIsZero THEN Fin(0)
             ELSE Fin(Sign(73 * total - n * (RiskFreeBasisPoints \div 5) * 100))


\* ------------------------------------------------- state
VARIABLES
    server,     \* what the external pools data server holds
    clients,    \* requests the callers may still issue
    bt,         \* run id -> the state of that runBacktest invocation
    sim,        \* the state of the runSimulation invocation
    apyCalc,    \* the APY calculator: rates, snapshots and pending calls
    strategy,   \* the suggestion generator: the raw chain and its result
    priceSvc,   \* the token price service: its cache and the calls in flight
    indexer     \* the indexer: its flag, the checkpoint and the runs
vars == <<server, clients, bt, sim, apyCalc, strategy, priceSvc, indexer>>

NoRequest ==
    [initialAmountUsd |-> 0, from |-> 0, to |-> 0, allocations |-> <<>>,
     rebalanceIntervalDays |-> None, includeIL |-> None, xcmFeeUsd |-> None]

NoSummary ==
    [initialAmountUsd |-> 0, finalAmountUsd |-> 0, totalReturnUsd |-> 0,
     totalReturnPercent |-> Fin(0), maxDrawdownPercent |-> Fin(0),
     annualizedApyPercent |-> Fin(0),
     sharpeRatio |-> Fin(0), durationDays |-> 0, rebalancedCount |-> 0,
     xcmFeesPaidUsd |-> 0, ilIncluded |-> FALSE]

\* a runBacktest invocation that has not been made yet
IdleRun ==
    [pc |-> "idle", dto |-> NoRequest, error |-> "",
     days |-> <<>>, durationDays |-> 0,
     fetch |-> [p \in {} |-> ""], cache |-> [p \in {} |-> <<>>],
     requestsIssued |-> 0,
     allocStates |-> <<>>, i |-> 0, timeSeries |-> <<>>,
     peakValue |-> 0, maxDrawdown |-> Fin(0), xcmFeesPaidUsd |-> 0,
     rebalanceCount |-> 0, prevTotalValue |-> 0,
     summary |-> NoSummary, breakdown |-> <<>>, resultSeries |-> <<>>]

\* ------------------------------------------------- runBacktest
\* the records GET /pools/history?protocol=proto answers with
ServerHistory(proto) ==
    SelectSeq(server.history, LAMBDA rec : rec.protocol = proto)

\* lines 68-125: destructuring, validation, the day list, and one history
\* request per distinct protocol, all issued before the first await returns
BtCallWith(r, requests) ==
    /\ clients > 0
    /\ bt[r].pc = "idle"
    /\ clients' = clients - 1
    /\ \E dto \in requests :
        LET run == [bt[r] EXCEPT !.dto = dto]
        IN  IF BacktestSumRejected(dto.allocations)
            THEN bt' = [bt EXCEPT ![r] =
                     [run EXCEPT !.pc = "rejected",
                                 !.error = "Allocations must sum to 100%"]]
            ELSE IF DatesRejected(dto.from, dto.to)
            THEN bt' = [bt EXCEPT ![r] =
                     [run EXCEPT !.pc = "rejected",
                                 !.error = "from must be before to"]]
            ELSE LET days == buildDayList(dto.from, dto.to)
                     protocolsNeeded == Protocols(dto.allocations)
                 IN  bt' = [bt EXCEPT ![r] =
                         [run EXCEPT !.pc = "fetching",
                                     !.days = days,
                                     !.durationDays = Len(days) - 1,
                                     !.fetch = [p \in protocolsNeeded |-> "pending"],
                                     !.cache = [p \in protocolsNeeded |-> <<>>],
                                     !.requestsIssued = Cardinality(protocolsNeeded)]]
    /\ UNCHANGED <<priceSvc, indexer, server, sim, apyCalc, strategy>>

BtCall(r) == BtCallWith(r, BacktestRequests)

\* a history answer kept in a cache that every run shares
BtFetchOkShared(r, proto) ==
    /\ bt[r].pc = "fetching"
    /\ proto \in DOMAIN bt[r].fetch
    /\ bt[r].fetch[proto] = "pending"
    /\ bt' = [q \in DOMAIN bt |->
                 IF q = r
                 THEN [bt[q] EXCEPT !.fetch[proto] = "ok",
                                    !.cache[proto] = ServerHistory(proto)]
                 ELSE [bt[q] EXCEPT !.cache =
                          [p \in (DOMAIN bt[q].cache) \cup {proto} |->
                              IF p = proto THEN ServerHistory(proto)
                              ELSE bt[q].cache[p]]]]
    /\ UNCHANGED <<priceSvc, indexer, server, clients, sim, apyCalc, strategy>>

\* lines 109-117: a history request answers
BtFetchOk(r, proto) ==
    /\ bt[r].pc = "fetching"
    /\ proto \in DOMAIN bt[r].fetch
    /\ bt[r].fetch[proto] = "pending"
    /\ bt' = [bt EXCEPT ![r].fetch[proto] = "ok",
                        ![r].cache[proto] = ServerHistory(proto)]
    /\ UNCHANGED <<priceSvc, indexer, server, clients, sim, apyCalc, strategy>>

\* a failed history request that aborts the whole run
BtFetchFailFatal(r, proto) ==
    /\ bt[r].pc = "fetching"
    /\ proto \in DOMAIN bt[r].fetch
    /\ bt[r].fetch[proto] = "pending"
    /\ bt' = [bt EXCEPT ![r].fetch[proto] = "failed",
                        ![r].pc = "rejected",
                        ![r].error = "history request failed"]
    /\ UNCHANGED <<priceSvc, indexer, server, clients, sim, apyCalc, strategy>>

\* lines 118-123: a history request fails
BtFetchFail(r, proto) ==
    /\ bt[r].pc = "fetching"
    /\ proto \in DOMAIN bt[r].fetch
    /\ bt[r].fetch[proto] = "pending"
    /\ bt' = [bt EXCEPT ![r].fetch[proto] = "failed",
                        ![r].cache[proto] = <<>>]
    /\ UNCHANGED <<priceSvc, indexer, server, clients, sim, apyCalc, strategy>>

\* an AllocState built from every record of the protocol, whatever its asset
MakeAllocStateAnyAsset(alloc, cache, initialAmountUsd) ==
    LET rawRecords == IF alloc.protocol \in DOMAIN cache
                      THEN cache[alloc.protocol] ELSE <<>>
    IN  [protocol |-> alloc.protocol,
         assetSymbol |-> alloc.assetSymbol,
         poolType |-> OrElse(alloc.poolType, "unknown"),
         percentage |-> alloc.percentage,
         valueUsd |-> MulDiv(initialAmountUsd, alloc.percentage, 100 * PCT),
         apyHistory |-> buildApyMap(rawRecords),
         apySamples |-> <<>>,
         ilLossUsd |-> 0]

\* lines 127-146: the AllocState of one allocation
MakeAllocState(alloc, cache, initialAmountUsd) ==
    LET rawRecords ==
            SelectSeq(IF alloc.protocol \in DOMAIN cache
                      THEN cache[alloc.protocol] ELSE <<>>,
                      LAMBDA rec : ToLower(rec.assetSymbol) = ToLower(alloc.assetSymbol))
    IN  [protocol |-> alloc.protocol,
         assetSymbol |-> alloc.assetSymbol,
         poolType |-> OrElse(alloc.poolType, "unknown"),
         percentage |-> alloc.percentage,
         valueUsd |-> MulDiv(initialAmountUsd, alloc.percentage, 100 * PCT),
         apyHistory |-> buildApyMap(rawRecords),
         apySamples |-> <<>>,
         ilLossUsd |-> 0]

\* allocation states built as soon as one history request has settled
BtBuildStatesEarly(r) ==
    /\ bt[r].pc = "fetching"
    /\ \E p \in DOMAIN bt[r].fetch : bt[r].fetch[p] # "pending"
    /\ LET dto == bt[r].dto
       IN  bt' = [bt EXCEPT ![r] =
                [bt[r] EXCEPT
                    !.pc = "loop",
                    !.allocStates =
                        [j \in 1..Len(dto.allocations) |->
                            MakeAllocState(dto.allocations[j], bt[r].cache,
                                           dto.initialAmountUsd)],
                    !.i = 0,
                    !.timeSeries = <<>>,
                    !.peakValue = dto.initialAmountUsd,
                    !.maxDrawdown = Fin(0),
                    !.xcmFeesPaidUsd = 0,
                    !.rebalanceCount = 0,
                    !.prevTotalValue = dto.initialAmountUsd]]
    /\ UNCHANGED <<priceSvc, indexer, server, clients, sim, apyCalc, strategy>>

\* lines 127-154, once Promise.all has resolved
BtBuildStates(r) ==
    /\ bt[r].pc = "fetching"
    /\ \A p \in DOMAIN bt[r].fetch : bt[r].fetch[p] # "pending"
    /\ LET dto == bt[r].dto
       IN  bt' = [bt EXCEPT ![r] =
                [bt[r] EXCEPT
                    !.pc = "loop",
                    !.allocStates =
                        [j \in 1..Len(dto.allocations) |->
                            MakeAllocState(dto.allocations[j], bt[r].cache,
                                           dto.initialAmountUsd)],
                    !.i = 0,
                    !.timeSeries = <<>>,
                    !.peakValue = dto.initialAmountUsd,
                    !.maxDrawdown = Fin(0),
                    !.xcmFeesPaidUsd = 0,
                    !.rebalanceCount = 0,
                    !.prevTotalValue = dto.initialAmountUsd]]
    /\ UNCHANGED <<priceSvc, indexer, server, clients, sim, apyCalc, strategy>>

TotalValue(states) == SumSeq([j \in 1..Len(states) |-> states[j].valueUsd])

\* a growth step that compounds on day 0 as well
GrowStateEveryDay(state, dateStr, i) ==
    LET apy == getApyForDay(state.apyHistory, dateStr)
    IN  [state EXCEPT
            !.apySamples = Append(state.apySamples, apy),
            !.valueUsd = MulDiv(state.valueUsd, ApyDen + apy, ApyDen)]

\* lines 160-169: the APY of the day is sampled and, after day 0, compounded
GrowState(state, dateStr, i) ==
    LET apy == getApyForDay(state.apyHistory, dateStr)
    IN  [state EXCEPT
            !.apySamples = Append(state.apySamples, apy),
            !.valueUsd = IF i > 0
                         THEN MulDiv(state.valueUsd, ApyDen + apy, ApyDen)
                         ELSE state.valueUsd]

\* a rebalance test that accepts day 0
isRebalanceDayFromZero(rebalanceIntervalDays, i) ==
    /\ rebalanceIntervalDays > 0
    /\ i % rebalanceIntervalDays = 0

\* lines 172-175
isRebalanceDay(rebalanceIntervalDays, i) ==
    /\ rebalanceIntervalDays > 0
    /\ i > 0
    /\ i % rebalanceIntervalDays = 0

\* a fee charged for every allocation
FeesPerAllocation(xcmFeeUsd, states) == xcmFeeUsd * Len(states)

\* line 181
FeesThisRebalance(xcmFeeUsd, states) == xcmFeeUsd * countCrossChainHops(states)

\* lines 188-190
Redistribute(states, totalAfterFees) ==
    [j \in 1..Len(states) |->
        [states[j] EXCEPT !.valueUsd =
            MulDiv(totalAfterFees, states[j].percentage, 100 * PCT)]]

\* a tracker that keeps the drawdown of the latest day
TrackDrawdownLatest(maxDrawdown, drawdown) == drawdown

\* lines 208-211: the maximum drawdown after a day whose drawdown is given
TrackDrawdown(maxDrawdown, drawdown) ==
    IF GtJS(drawdown, maxDrawdown) THEN drawdown ELSE maxDrawdown

\* lines 156-212: one iteration of the day loop
BtDay(r) ==
    /\ bt[r].pc = "loop"
    /\ bt[r].i < Len(bt[r].days)
    /\ LET run == bt[r]
           i == run.i
           dateStr == run.days[i + 1]
           interval == OrElse(run.dto.rebalanceIntervalDays, 0)
           xcmFeeUsd == OrElse(run.dto.xcmFeeUsd, DefaultXcmFeeUsd)
           grown == [j \in 1..Len(run.allocStates) |->
                        GrowState(run.allocStates[j], dateStr, i)]
           rebalance == isRebalanceDay(interval, i)
           fees == IF rebalance THEN FeesThisRebalance(xcmFeeUsd, grown) ELSE 0
           states == IF rebalance
                     THEN Redistribute(grown, TotalValue(grown) - fees)
                     ELSE grown
           totalValue == TotalValue(states)
           dailyReturnPct ==
               IF i = 0 THEN Fin(0)
               ELSE DivJS(totalValue - run.prevTotalValue, run.prevTotalValue,
                          100 * RP)
           peakValue == IF totalValue > run.peakValue
                        THEN totalValue ELSE run.peakValue
           drawdown == DivJS(peakValue - totalValue, peakValue, 100 * RP)
       IN  bt' = [bt EXCEPT ![r] =
                [run EXCEPT
                    !.allocStates = states,
                    !.xcmFeesPaidUsd = run.xcmFeesPaidUsd + fees,
                    !.rebalanceCount =
                        run.rebalanceCount + (IF rebalance THEN 1 ELSE 0),
                    !.prevTotalValue = totalValue,
                    !.timeSeries = Append(run.timeSeries,
                        [date |-> dateStr,
                         totalValueUsd |-> ToFixed4(totalValue),
                         dailyReturnPct |-> ToFixed4JS(dailyReturnPct)]),
                    !.peakValue = peakValue,
                    !.maxDrawdown = TrackDrawdown(run.maxDrawdown, drawdown),
                    !.i = i + 1]]
    /\ UNCHANGED <<priceSvc, indexer, server, clients, sim, apyCalc, strategy>>

NegJS(x) == IF x.k = "nan" THEN x ELSE [x EXCEPT !.v = -x.v]

MaxPoints == 500                        \* the cap passed to downsampleTimeSeries

\* lines 413-415: the indices (from 1) kept by the stride loop
\* (i, i + step, i + 2 * step, ... while below len)
StrideIndices(i, step, len) ==
    LET count == IF i < len THEN (len - i + step - 1) \div step ELSE 0
    IN  [k \in 1..count |-> i + (k - 1) * step + 1]

\* a downsampling that keeps the strided points only
downsampleStrideOnly(series, maxPoints) ==
    IF Len(series) <= maxPoints THEN series
    ELSE LET len == Len(series)
             step == (len + maxPoints - 1) \div maxPoints
             idx == StrideIndices(0, step, len)
         IN  [j \in 1..Len(idx) |-> series[idx[j]]]

\* downsampleTimeSeries: the series itself up to maxPoints points; otherwise
\* every step-th point, and the last point when the stride did not end on it
downsampleTimeSeries(series, maxPoints) ==
    IF Len(series) <= maxPoints THEN series
    ELSE LET len == Len(series)
             step == (len + maxPoints - 1) \div maxPoints
             idx == StrideIndices(0, step, len)
             all == IF idx[Len(idx)] # len THEN Append(idx, len) ELSE idx
         IN  [j \in 1..Len(all) |-> series[all[j]]]

SeqMin(s) == SetMin({s[j] : j \in 1..Len(s)})
SeqMax(s) == SetMax({s[j] : j \in 1..Len(s)})

\* lines 249-276: the breakdown entry of one allocation state
BreakdownEntry(state, initialAmountUsd) ==
    LET allocatedUsd == MulDiv(initialAmountUsd, state.percentage, 100 * PCT)
        returnUsd == state.valueUsd - allocatedUsd
        n == Len(state.apySamples)
    IN  [protocol |-> state.protocol,
         assetSymbol |-> state.assetSymbol,
         poolType |-> state.poolType,
         allocationPercent |-> state.percentage,
         allocatedUsd |-> ToFixed4(allocatedUsd),
         avgApyPercent |->
             IF n > 0 THEN ToFixed4(MulDiv(SumSeq(state.apySamples), 100, n)) ELSE 0,
         minApyPercent |-> IF n > 0 THEN SeqMin(state.apySamples) ELSE 0,
         maxApyPercent |-> IF n > 0 THEN SeqMax(state.apySamples) ELSE 0,
         ilLossUsd |-> state.ilLossUsd,
         finalUsd |-> ToFixed4(state.valueUsd),
         returnUsd |-> ToFixed4(returnUsd),
         returnPercent |-> ToFixed4JS(DivJS(returnUsd, allocatedUsd, 100 * RP)),
         dataPointsUsed |-> n,
         hasHistoricalData |-> DOMAIN state.apyHistory # {}]

\* line 245: timeSeries.slice(1).map(t => t.dailyReturnPct / 100)
DailyReturns(timeSeries) ==
    [j \in 1..(Len(timeSeries) - 1) |-> timeSeries[j + 1].dailyReturnPct]

\* lines 239-242: durationDays > 0
\*   ? (Math.pow(finalTotalUsd / initialAmountUsd, 365 / durationDays) - 1) * 100
\*   : 0
\* The magnitude of a finite non-zero figure is not modelled: the result is
\* Fin(0), Fin(+-1) for a finite non-zero figure of that sign, NaN or an
\* infinity.  initialAmountUsd is never negative.  A ratio of 0/0 is NaN and
\* so is its power; x/0 is +-Infinity, and Math.pow(-Infinity, y) is
\* -Infinity for an odd integer y and +Infinity for any other y > 0; a
\* negative finite ratio has a NaN power unless the exponent is an integer,
\* and 365 / durationDays, when an integer, is odd.
annualizedApy(finalTotalUsd, initialAmountUsd, durationDays) ==
    IF durationDays = 0 THEN Fin(0)
    ELSE IF initialAmountUsd = 0
    THEN (IF finalTotalUsd = 0 THEN NaN
          ELSE IF finalTotalUsd > 0 \/ 365 % durationDays # 0 THEN Inf(1)
          ELSE Inf(-1))
    ELSE IF finalTotalUsd < 0 /\ 365 % durationDays # 0 THEN NaN
    ELSE Fin(Sign(finalTotalUsd - initialAmountUsd))

\* lines 214-298: the impermanent-loss pass, the final metrics, the breakdown
\* and the returned result
BtFinish(r) ==
    /\ bt[r].pc = "loop"
    /\ bt[r].i = Len(bt[r].days)
    /\ LET run == bt[r]
           initialAmountUsd == run.dto.initialAmountUsd
           includeIL == OrElse(run.dto.includeIL, FALSE)
           states == IF includeIL
                     THEN [j \in 1..Len(run.allocStates) |-> ApplyIL(run.allocStates[j])]
                     ELSE run.allocStates
           finalTotalUsd == TotalValue(states)
           totalReturnUsd == finalTotalUsd - initialAmountUsd
       IN  bt' = [bt EXCEPT ![r] =
                [run EXCEPT
                    !.pc = "done",
                    !.allocStates = states,
                    !.summary =
                        [initialAmountUsd |-> initialAmountUsd,
                         finalAmountUsd |-> ToFixed4(finalTotalUsd),
                         totalReturnUsd |-> ToFixed4(totalReturnUsd),
                         totalReturnPercent |->
                             ToFixed4JS(DivJS(totalReturnUsd, initialAmountUsd, 100 * RP)),
                         annualizedApyPercent |->
                             annualizedApy(finalTotalUsd, initialAmountUsd,
                                           run.durationDays),
                         maxDrawdownPercent |-> ToFixed4JS(NegJS(run.maxDrawdown)),
                         sharpeRatio |-> calcSharpe(DailyReturns(run.timeSeries)),
                         durationDays |-> run.durationDays,
                         rebalancedCount |-> run.rebalanceCount,
                         xcmFeesPaidUsd |-> ToFixed4(run.xcmFeesPaidUsd),
                         ilIncluded |-> includeIL],
                    !.breakdown =
                        [j \in 1..Len(states) |->
                            BreakdownEntry(states[j], initialAmountUsd)],
                    !.resultSeries = downsampleTimeSeries(run.timeSeries, MaxPoints)]]
    /\ UNCHANGED <<priceSvc, indexer, server, clients, sim, apyCalc, strategy>>

\* ------------------------------------------------- runSimulation
SimulationRequests ==
    [initialAmountUsd : {2 * U},
     from : FromInstants,
     to : ToInstants,
     allocations : AllocLists]

NoSimSummary ==
    [initialAmountUsd |-> 0, finalAmountUsd |-> 0, totalReturnUsd |-> 0,
     totalReturnPercent |-> Fin(0), weightedAvgApyPercent |-> 0,
     durationHalfDays |-> 0]

IdleSim ==
    [pc |-> "idle", dto |-> NoRequest, error |-> "", requestsIssued |-> 0,
     summary |-> NoSimSummary, breakdown |-> <<>>]

\* lines 95-99: Math.abs(totalPct - 100) > 0.01
SimulationSumRejected(allocations) ==
    Abs(PercentageSum(allocations) - 100 * PCT) > PctTolerance

\* parseFloat(x.toFixed(2)) of an amount carried with five decimals
ToFixed2(x) == Sign(x) * (((Abs(x) + 500) \div 1000) * 1000)

\* line 103: Math.max(1, (toDate - fromDate) / one day), in half days
SimDuration(from, to) == Max2(HalfDaysPerDay, to - from)

RECURSIVE CompoundDays(_, _, _)
CompoundDays(value, apy, k) ==
    IF k = 0 THEN value
    ELSE CompoundDays(MulDiv(value, ApyDen + apy, ApyDen), apy, k - 1)

\* line 146: allocated * Math.pow(1 + apy/100/365, durationDays); the half
\* day of a duration of k + 1/2 days multiplies by the square root of the
\* daily factor (taken on a 1e-4 grid)
SimFinalUsd(allocatedUsd, apy, halfDays) ==
    LET whole == CompoundDays(allocatedUsd, apy, halfDays \div HalfDaysPerDay)
    IN  IF halfDays % HalfDaysPerDay = 0 THEN whole
        ELSE MulDiv(whole,
                    ISqrt(MulDiv(ApyDen + apy, 10000 * 10000, ApyDen)),
                    10000)

\* lines 120-124: allPools.find(...), as the sequence of matches
MatchingPools(allPools, alloc) ==
    SelectSeq(allPools, LAMBDA pool :
        /\ ToLower(pool.protocol) = ToLower(alloc.protocol)
        /\ ToLower(pool.assetSymbol) = ToLower(alloc.assetSymbol))

\* lines 116-169: the breakdown entry of one allocation, with the unrounded
\* final value that is added to totalFinalUsd
SimEntry(alloc, allPools, initialAmountUsd, halfDays) ==
    LET allocatedUsd == MulDiv(initialAmountUsd, alloc.percentage, 100 * PCT)
        found == MatchingPools(allPools, alloc)
    IN  IF found = <<>>
        THEN [protocol |-> alloc.protocol,
              assetSymbol |-> alloc.assetSymbol,
              allocationPercent |-> alloc.percentage,
              allocatedUsd |-> ToFixed2(allocatedUsd),
              apyUsed |-> None,
              finalUsd |-> ToFixed2(allocatedUsd),
              returnUsd |-> 0,
              returnPercent |-> Fin(0),
              warning |-> "Pool not found in data server",
              rawFinalUsd |-> allocatedUsd]
        ELSE LET pool == found[1]
                 finalUsd == SimFinalUsd(allocatedUsd, pool.totalApy, halfDays)
                 returnUsd == finalUsd - allocatedUsd
             IN  [protocol |-> pool.protocol,
                  assetSymbol |-> pool.assetSymbol,
                  allocationPercent |-> alloc.percentage,
                  allocatedUsd |-> ToFixed4(allocatedUsd),
                  apyUsed |-> Some(pool.totalApy),
                  finalUsd |-> ToFixed4(finalUsd),
                  returnUsd |-> ToFixed4(returnUsd),
                  returnPercent |->
                      ToFixed4JS(DivJS(returnUsd, allocatedUsd, 100 * RP)),
                  warning |-> "",
                  rawFinalUsd |-> finalUsd]

\* lines 176-178: sum of (apyUsed ?? 0) * (allocationPercent / 100), in
\* return-percent units
WeightedApy(breakdown) ==
    SumSeq([j \in 1..Len(breakdown) |->
        MulDiv(OrElse(breakdown[j].apyUsed, 0) * (RP \div PCT),
               breakdown[j].allocationPercent, 100 * PCT)])

\* lines 92-110: validation, then the single request for the pools
SimCall ==
    /\ clients > 0
    /\ sim.pc = "idle"
    /\ clients' = clients - 1
    /\ \E dto \in SimulationRequests :
        sim' =
            IF SimulationSumRejected(dto.allocations)
            THEN [sim EXCEPT !.dto = dto, !.pc = "rejected",
                             !.error = "Allocations must sum to 100%"]
            ELSE IF DatesRejected(dto.from, dto.to)
            THEN [sim EXCEPT !.dto = dto, !.pc = "rejected",
                             !.error = "from must be before to"]
            ELSE [sim EXCEPT !.dto = dto, !.pc = "fetching", !.requestsIssued = 1]
    /\ UNCHANGED <<priceSvc, indexer, server, bt, apyCalc, strategy>>

\* lines 82-88: the pools request fails and fetchPools throws
SimFetchFail ==
    /\ sim.pc = "fetching"
    /\ sim' = [sim EXCEPT !.pc = "failed",
                          !.error = "Cannot reach pools data server"]
    /\ UNCHANGED <<priceSvc, indexer, server, clients, bt, apyCalc, strategy>>

\* lines 110-193: the pools request answers and the result is computed
SimFetchOk ==
    /\ sim.pc = "fetching"
    /\ LET dto == sim.dto
           halfDays == SimDuration(dto.from, dto.to)
           breakdown == [j \in 1..Len(dto.allocations) |->
                            SimEntry(dto.allocations[j], server.pools,
                                     dto.initialAmountUsd, halfDays)]
           totalFinalUsd ==
               SumSeq([j \in 1..Len(breakdown) |-> breakdown[j].rawFinalUsd])
           totalReturnUsd == totalFinalUsd - dto.initialAmountUsd
       IN  sim' = [sim EXCEPT
                !.pc = "done",
                !.breakdown = breakdown,
                !.summary =
                    [initialAmountUsd |-> dto.initialAmountUsd,
                     finalAmountUsd |-> ToFixed4(totalFinalUsd),
                     totalReturnUsd |-> ToFixed4(totalReturnUsd),
                     totalReturnPercent |->
                         ToFixed4JS(DivJS(totalReturnUsd, dto.initialAmountUsd,
                                          100 * RP)),
                     weightedAvgApyPercent |-> ToFixed4(WeightedApy(breakdown)),
                     durationHalfDays |-> halfDays]]
    /\ UNCHANGED <<priceSvc, indexer, server, clients, bt, apyCalc, strategy>>

\* ------------------------------------------------- APY calculator
\* ApyCalculatorService.  Exchange rates and annualized fractions carry eight
\* decimals (RateScale per unit), timestamps are half days, the stored
\* percentages are in units of 1e-4 % (what toFixed(4) keeps).
RateScale == 10000 * 10000
RateBp == RateScale \div 10000
WeekHalfDays == 7 * HalfDaysPerDay
MonthHalfDays == 30 * HalfDaysPerDay
YearHalfDays == 365 * HalfDaysPerDay
Chain == "bifrost-polkadot"

\* bound: the number of instants at which a call reads the clock
MaxClock == 2

\* ln(1 + x) = x - x^2/2 + x^3/3 - ..., until the power vanishes on the grid
RECURSIVE Ln1pFrom(_, _, _)
Ln1pFrom(x, power, k) ==
    IF power = 0 THEN 0
    ELSE (IF k % 2 = 1 THEN 1 ELSE -1) * MulDiv(power, 1, k)
         + Ln1pFrom(x, MulDiv(power, x, RateScale), k + 1)
Ln1p(x) == Ln1pFrom(x, x, 1)

\* exp(y) - 1 = y + y^2/2! + y^3/3! + ..., until the term vanishes
RECURSIVE ExpM1From(_, _, _)
ExpM1From(y, term, k) ==
    IF term = 0 THEN 0
    ELSE term + ExpM1From(y, MulDiv(MulDiv(term, y, RateScale), 1, k + 1), k + 1)
ExpM1(y) == ExpM1From(y, y, 1)

\* Math.pow(1 + periodReturn, 365 / daysDiff) - 1
AnnualizeSigned(currentRate, refRate, halfDays) ==
    LET periodReturn == MulDiv(currentRate - refRate, RateScale, refRate)
    IN  ExpM1(MulDiv(Ln1p(periodReturn), YearHalfDays, halfDays))

\* lines 78-81: the same for currentRate > refRate > 0, where the double is
\* positive however small it is
Annualize(currentRate, refRate, halfDays) ==
    Max2(1, AnnualizeSigned(currentRate, refRate, halfDays))

\* a stored exchange-rate observation (indexer.service.ts 150-172)
RateObs(sym, block, ts, rate) ==
    [tokenSymbol |-> sym, blockNumber |-> block, timestamp |-> ts,
     exchangeRateHuman |-> rate, chain |-> Chain]

\* what the chain will show the indexer, in block order; block timestamps
\* grow with the block number
TimelineGrowth ==
    << RateObs("vDOT", 1, 0, RateScale),
       RateObs("vKSM", 1, 0, RateScale),
       RateObs("vDOT", 2, 46, RateScale + 40 * RateBp),
       RateObs("vDOT", 3, 60, RateScale + 60 * RateBp),
       RateObs("vDOT", 4, 61, RateScale + 61 * RateBp),
       RateObs("vDOT", 5, 74, RateScale + 90 * RateBp) >>
TimelineMixed ==
    << RateObs("vDOT", 1, 0, RateScale),
       RateObs("vDOT", 2, 14, RateScale + 100 * RateBp),
       RateObs("vDOT", 3, 60, RateScale + 50 * RateBp),
       RateObs("vDOT", 4, 61, RateScale + 1) >>
TimelineZeroRate ==
    << RateObs("vDOT", 1, 0, 0),
       RateObs("vDOT", 2, 20, RateScale),
       RateObs("vDOT", 3, 34, RateScale + 20 * RateBp),
       RateObs("vDOT", 4, 80, RateScale + 20 * RateBp) >>
Timelines == {TimelineGrowth, TimelineMixed, TimelineZeroRate}
Assets == {"vDOT", "vKSM"}
Prices == {4 * U, 5 * U}

\* vtokenRateRepo.find / findOne with where: { tokenSymbol }
RatesOf(rates, sym) == SelectSeq(rates, LAMBDA r : r.tokenSymbol = sym)

\* findOne(..., order: { <field>: 'DESC' }) over a list of documents
FindOneDesc(docs, field) ==
    IF docs = <<>> THEN None
    ELSE Some(docs[CHOOSE j \in 1..Len(docs) :
                       \A k \in 1..Len(docs) : docs[k][field] <= docs[j][field]])

\* find(..., order: { timestamp: 'ASC' })
RECURSIVE SortByTimestamp(_)
SortByTimestamp(docs) ==
    IF docs = <<>> THEN <<>>
    ELSE LET j == CHOOSE j \in 1..Len(docs) :
                      \A k \in 1..Len(docs) : docs[j].timestamp <= docs[k].timestamp
         IN  <<docs[j]>> \o
             SortByTimestamp([k \in 1..(Len(docs) - 1) |->
                                 IF k < j THEN docs[k] ELSE docs[k + 1]])

\* the first element of a list instead of its last
Shift(docs) == IF docs = <<>> THEN None ELSE Some(docs[1])

\* Array.prototype.pop() of a filtered list: its last element, or undefined
Pop(docs) == IF docs = <<>> THEN None ELSE Some(docs[Len(docs)])

\* a window that annualizes whenever the reference rate is positive
WindowApyUnguarded(current, ref) ==
    IF /\ ref # None
       /\ ref[1].exchangeRateHuman > 0
    THEN AnnualizeSigned(current.exchangeRateHuman, ref[1].exchangeRateHuman,
                         current.timestamp - ref[1].timestamp)
    ELSE 0

\* lines 77-82 / 84-89 / 170-180: the annualized figure of one window
WindowApy(current, ref) ==
    IF /\ ref # None
       /\ ref[1].exchangeRateHuman > 0
       /\ current.exchangeRateHuman > ref[1].exchangeRateHuman
    THEN Annualize(current.exchangeRateHuman, ref[1].exchangeRateHuman,
                   current.timestamp - ref[1].timestamp)
    ELSE 0

\* a staking figure that averages the two windows
StakingApyBlended(apy7d, apy30d) == (apy7d + apy30d) \div 2

\* line 91 / 182: apy7d || apy30d
StakingApy(apy7d, apy30d) == IF apy7d # 0 THEN apy7d ELSE apy30d

\* parseFloat((x * 100).toFixed(4)) of a fraction with eight decimals
PercentFixed4(fraction) == MulDiv(fraction, 1, 100)

\* the $set document of lines 107-121 and 200-214
SnapshotDoc(current, apy7d, apy30d, price, chain, createdAt) ==
    [asset |-> current.tokenSymbol,
     timestamp |-> current.timestamp,
     blockNumber |-> current.blockNumber,
     stakingApyPercent |-> PercentFixed4(StakingApy(apy7d, apy30d)),
     farmingAprPercent |-> 0,
     totalApyPercent |-> PercentFixed4(StakingApy(apy7d, apy30d)),
     apy7d |-> PercentFixed4(apy7d),
     apy30d |-> PercentFixed4(apy30d),
     exchangeRateHuman |-> current.exchangeRateHuman,
     baseTokenPriceUsd |-> price,
     chain |-> chain,
     granularity |-> "hourly",
     createdAt |-> createdAt]

\* the apy_snapshots collection is a list of documents with the unique
\* index (asset, granularity, timestamp) of the ApySnapshot entity
IndexKey(doc) == <<doc.asset, doc.granularity, doc.timestamp>>
Matches(doc, filter) == \A f \in DOMAIN filter : doc[f] = filter[f]

\* a write that inserts whatever the collection holds
UpsertInsertOnly(store, filter, doc) ==
    [ok |-> TRUE, store |-> Append(store, doc)]

\* updateOne(filter, { $set: doc }, { upsert: true }): the first match is
\* updated in place, without a match the document is inserted; a write that
\* would give two documents the same index key fails and changes nothing
Upsert(store, filter, doc) ==
    LET hits == {j \in 1..Len(store) : Matches(store[j], filter)}
        clash(except) == \E k \in 1..Len(store) :
                             k # except /\ IndexKey(store[k]) = IndexKey(doc)
    IN  IF hits # {}
        THEN LET j == SetMin(hits)
             IN  IF clash(j) THEN [ok |-> FALSE, store |-> store]
                 ELSE [ok |-> TRUE, store |-> [store EXCEPT ![j] = doc]]
        ELSE IF clash(0) THEN [ok |-> FALSE, store |-> store]
        ELSE [ok |-> TRUE, store |-> Append(store, doc)]

NoCompute ==
    [pc |-> "idle", asset |-> "", seen |-> 0, current |-> None,
     apy7d |-> 0, apy30d |-> 0]
\* a backfillApyHistory call: the rates it read, its bulk operations, the
\* number of them already applied and the count it returns
NoBackfill ==
    [pc |-> "idle", asset |-> "", allRates |-> <<>>, bulkOps |-> <<>>,
     applied |-> 0, count |-> 0]

\* `computed` is the record of what each finished computeApyForAsset call
\* had read and wrote, in call order
IdleApy ==
    [timeline |-> <<>>, indexed |-> 0, snapshots |-> <<>>, clock |-> 0,
     compute |-> NoCompute, backfill |-> NoBackfill, computed |-> <<>>]

\* the vtoken_exchange_rates collection
StoredRates == SubSeq(apyCalc.timeline, 1, apyCalc.indexed)

\* indexer.service.ts 166-172: the rate of the next block is stored
IndexRate ==
    /\ apyCalc.indexed < Len(apyCalc.timeline)
    /\ apyCalc' = [apyCalc EXCEPT !.indexed = apyCalc.indexed + 1]
    /\ UNCHANGED <<priceSvc, indexer, server, clients, bt, sim, strategy>>

\* lines 45-91: the latest observation, the two reference observations and
\* the two annualized figures
ComputeStart(asset) ==
    /\ apyCalc.compute.pc = "idle"
    /\ LET mine == RatesOf(StoredRates, asset)
           latest == FindOneDesc(mine, "blockNumber")
       IN  IF latest = None
           THEN apyCalc' = apyCalc
           ELSE LET current == latest[1]
                    rate7d == FindOneDesc(SelectSeq(mine, LAMBDA r :
                                  r.timestamp <= current.timestamp - WeekHalfDays),
                                  "timestamp")
                    rate30d == FindOneDesc(SelectSeq(mine, LAMBDA r :
                                  r.timestamp <= current.timestamp - MonthHalfDays),
                                  "timestamp")
                IN  apyCalc' = [apyCalc EXCEPT !.compute =
                        [pc |-> "priced", asset |-> asset, seen |-> Len(mine),
                         current |-> latest,
                         apy7d |-> WindowApy(current, rate7d),
                         apy30d |-> WindowApy(current, rate30d)]]
    /\ UNCHANGED <<priceSvc, indexer, server, clients, bt, sim, strategy>>

\* lines 92-124: getTokenPrice answers and the snapshot is upserted under
\* (asset, blockNumber, granularity)
ComputeWrite ==
    /\ apyCalc.compute.pc = "priced"
    /\ apyCalc.clock < MaxClock
    /\ \E price \in Prices :
        LET c == apyCalc.compute
            doc == SnapshotDoc(c.current[1], c.apy7d, c.apy30d, price, Chain,
                               apyCalc.clock)
            res == Upsert(apyCalc.snapshots,
                          [asset |-> c.asset,
                           blockNumber |-> c.current[1].blockNumber,
                           granularity |-> "hourly"], doc)
        IN  apyCalc' = [apyCalc EXCEPT
                !.snapshots = res.store,
                !.clock = apyCalc.clock + 1,
                !.compute = NoCompute,
                !.computed = IF res.ok
                             THEN Append(apyCalc.computed,
                                         [asset |-> c.asset, seen |-> c.seen,
                                          doc |-> doc])
                             ELSE apyCalc.computed]
    /\ UNCHANGED <<priceSvc, indexer, server, clients, bt, sim, strategy>>

\* lines 145-150: one observation per calendar day, the latest of the day,
\* in the order in which the days first appear
RECURSIVE DailyLatestFrom(_, _)
DailyLatestFrom(rates, daily) ==
    IF rates = <<>> THEN daily
    ELSE LET r == Head(rates)
             same == {j \in 1..Len(daily) :
                         DayOf(daily[j].timestamp) = DayOf(r.timestamp)}
         IN  DailyLatestFrom(Tail(rates),
                 IF same = {} THEN Append(daily, r)
                 ELSE [daily EXCEPT ![SetMin(same)] = r])
DailyLatest(rates) == DailyLatestFrom(rates, <<>>)

\* lines 156-220: the bulk operation of one daily observation, or none
BackfillOp(allRates, current, price, createdAt) ==
    LET rate7d == Pop(SelectSeq(allRates, LAMBDA r :
                      r.timestamp <= current.timestamp - WeekHalfDays))
        rate30d == Pop(SelectSeq(allRates, LAMBDA r :
                      r.timestamp <= current.timestamp - MonthHalfDays))
        apy7d == WindowApy(current, rate7d)
        apy30d == WindowApy(current, rate30d)
    IN  IF StakingApy(apy7d, apy30d) > 0
        THEN << [filter |-> [asset |-> current.tokenSymbol,
                             timestamp |-> current.timestamp,
                             granularity |-> "hourly"],
                 doc |-> SnapshotDoc(current, apy7d, apy30d, price,
                                     current.chain, createdAt)] >>
        ELSE <<>>

RECURSIVE BackfillOps(_, _, _, _)
BackfillOps(allRates, dailyRates, price, createdAt) ==
    IF dailyRates = <<>> THEN <<>>
    ELSE BackfillOp(allRates, Head(dailyRates), price, createdAt)
         \o BackfillOps(allRates, Tail(dailyRates), price, createdAt)

\* lines 136-221: all rates are read, the price is fetched and the bulk
\* operations are prepared; without operations the call returns at once
BackfillStart(asset) ==
    /\ apyCalc.backfill.pc \in {"idle", "done"}
    /\ apyCalc.clock < MaxClock
    /\ \E price \in Prices :
        LET allRates == SortByTimestamp(RatesOf(StoredRates, asset))
            ops == BackfillOps(allRates, DailyLatest(allRates), price, apyCalc.clock)
        IN  apyCalc' = [apyCalc EXCEPT
                !.clock = apyCalc.clock + 1,
                !.backfill = [pc |-> IF ops = <<>> THEN "done" ELSE "writing",
                              asset |-> asset, allRates |-> allRates,
                              bulkOps |-> ops, applied |-> 0,
                              count |-> Len(ops)]]
    /\ UNCHANGED <<priceSvc, indexer, server, clients, bt, sim, strategy>>

\* lines 223-225: bulkWrite applies the operations in order, one at a time,
\* and stops at the first one that fails
BackfillWriteOp ==
    /\ apyCalc.backfill.pc = "writing"
    /\ LET b == apyCalc.backfill
           op == b.bulkOps[b.applied + 1]
           res == Upsert(apyCalc.snapshots, op.filter, op.doc)
       IN  apyCalc' = [apyCalc EXCEPT
               !.snapshots = res.store,
               !.backfill = IF res.ok /\ b.applied + 1 < Len(b.bulkOps)
                            THEN [b EXCEPT !.applied = b.applied + 1]
                            ELSE [b EXCEPT !.pc = "done",
                                           !.applied = IF res.ok
                                                       THEN b.applied + 1
                                                       ELSE b.applied]]
    /\ UNCHANGED <<priceSvc, indexer, server, clients, bt, sim, strategy>>

\* ------------------------------------------------- suggestion generator
\* StrategyService.generateWithLLM and normaliseChain.  Of a chain the model
\* keeps the allocation percentages, on the percentage grid of 0.001 %.
IdleStrategy == [pc |-> "idle", raw |-> <<>>, allocations |-> <<>>]

\* bound: the number of allocations in a chain the LLM answers with
MaxChainLen == 3

\* the percentage of a raw allocation: missing, or a number
RawPercentages ==
    {None, Some(30 * PCT), Some(33 * PCT + 333), Some(40 * PCT + 4),
     Some(60 * PCT)}
RECURSIVE SeqsUpTo(_, _)
SeqsUpTo(S, n) ==
    IF n = 0 THEN {<<>>}
    ELSE LET shorter == SeqsUpTo(S, n - 1)
         IN  shorter \cup {Append(q, x) : q \in shorter, x \in S}
RawChains ==
    {[j \in 1..Len(q) |-> [percentage |-> q[j]]] :
        q \in SeqsUpTo(RawPercentages, MaxChainLen)}

\* parseFloat(x.toFixed(2)) of a percentage
PercentFixed2(x) == 10 * MulDiv(x, 1, 10)

DriftTolerance == 10                    \* 0.01 percent points

\* lines 235-251: Number(a.percentage ?? 0) for every allocation, and the
\* last one adjusted when the sum is more than 0.01 away from 100
normaliseChain(raw) ==
    LET allocations ==
            [j \in 1..Len(raw) |-> [percentage |-> OrElse(raw[j].percentage, 0)]]
        sum == SumSeq([j \in 1..Len(allocations) |-> allocations[j].percentage])
        last == Len(allocations)
    IN  IF last > 0 /\ Abs(sum - 100 * PCT) > DriftTolerance
        THEN [allocations EXCEPT ![last].percentage =
                 PercentFixed2(allocations[last].percentage + (100 * PCT - sum))]
        ELSE allocations

\* line 211: a chain of the parsed LLM answer is normalised
NormaliseChain ==
    /\ strategy.pc = "parsed"
    /\ strategy' = [strategy EXCEPT !.pc = "normalised",
                                    !.allocations = normaliseChain(strategy.raw)]
    /\ UNCHANGED <<priceSvc, indexer, server, clients, bt, sim, apyCalc>>

\* ------------------------------------------------- the token price service
\* ApyCalculatorService.getTokenPrice and its priceCache, for one coin and
\* two callers whose executions interleave at the awaits.  Time is counted
\* in ticks of two and a half minutes.
PriceCacheTtl == 2                      \* PRICE_CACHE_TTL_MS = 5 * 60 * 1000
MaxPriceClock == 3
\* the callers whose executions interleave
Callers == {1, 2}

\* what an upstream request gives: None when it throws, else the price read
\* from the answer (0 when the answer has no price)
UpstreamAnswers == {None} \cup {Some(p) : p \in {0} \cup Prices}

\* cache and stored are None or Some(entry)
IdlePriceSvc ==
    [cache |-> None, stored |-> None, clock |-> 0,
     calls |-> [c \in Callers |->
                   [pc |-> "idle", result |-> 0, fetches |-> 0, answer |-> None]]]

\* an answer is cached whatever price it carries
UsableAny(answer) == answer # None

\* lines 288 and 307: if (price > 0)
Usable(answer) == answer # None /\ answer[1] > 0

\* line 277: cached && Date.now() - cached.fetchedAt < PRICE_CACHE_TTL_MS
CacheFresh(cache, now) ==
    cache # None /\ now - cache[1].fetchedAt < PriceCacheTtl

\* lines 276-279 and the request of line 283: the call returns the cached
\* price or asks DeFiLlama
PriceCall(c) ==
    /\ priceSvc.calls[c].pc \in {"idle", "returned"}
    /\ priceSvc' =
           IF CacheFresh(priceSvc.cache, priceSvc.clock)
           THEN [priceSvc EXCEPT !.calls[c] =
                    [pc |-> "returned", result |-> priceSvc.cache[1].price,
                     fetches |-> 0, answer |-> None]]
           ELSE [priceSvc EXCEPT !.calls[c] =
                    [pc |-> "llama", result |-> 0, fetches |-> 1,
                     answer |-> None]]
    /\ UNCHANGED <<server, clients, bt, sim, apyCalc, strategy, indexer>>

\* lines 287-290 and 297-299: DeFiLlama answers or fails; a positive price is
\* cached with the time of the answer and then stored, anything else leads
\* to the request to CoinGecko
LlamaAnswer(c) ==
    /\ priceSvc.calls[c].pc = "llama"
    /\ \E answer \in UpstreamAnswers :
        priceSvc' =
            IF Usable(answer)
            THEN [priceSvc EXCEPT
                     !.cache = Some([price |-> answer[1],
                                     fetchedAt |-> priceSvc.clock]),
                     !.calls[c].pc = "store",
                     !.calls[c].result = answer[1],
                     !.calls[c].answer = answer]
            ELSE [priceSvc EXCEPT
                     !.calls[c].pc = "gecko",
                     !.calls[c].fetches = 2,
                     !.calls[c].answer = answer]
    /\ UNCHANGED <<server, clients, bt, sim, apyCalc, strategy, indexer>>

\* lines 290-295: the upsert of the price returns, or throws inside the try
\* block, which leads to the request to CoinGecko
StoreDone(c) ==
    /\ priceSvc.calls[c].pc = "store"
    /\ \E ok \in BOOLEAN :
        priceSvc' =
            IF ok
            THEN [priceSvc EXCEPT
                     !.stored = Some(priceSvc.calls[c].result),
                     !.calls[c].pc = "returned"]
            ELSE [priceSvc EXCEPT
                     !.calls[c].pc = "gecko",
                     !.calls[c].fetches = 2,
                     !.calls[c].result = 0]
    /\ UNCHANGED <<server, clients, bt, sim, apyCalc, strategy, indexer>>

\* lines 306-313: CoinGecko answers or fails; a positive price is cached and
\* returned, anything else leads to the lookup of the last stored price
GeckoAnswer(c) ==
    /\ priceSvc.calls[c].pc = "gecko"
    /\ \E answer \in UpstreamAnswers :
        priceSvc' =
            IF Usable(answer)
            THEN [priceSvc EXCEPT
                     !.cache = Some([price |-> answer[1],
                                     fetchedAt |-> priceSvc.clock]),
                     !.calls[c].pc = "returned",
                     !.calls[c].result = answer[1],
                     !.calls[c].answer = answer]
            ELSE [priceSvc EXCEPT
                     !.calls[c].pc = "db",
                     !.calls[c].answer = answer]
    /\ UNCHANGED <<server, clients, bt, sim, apyCalc, strategy, indexer>>

\* lines 315-319: lastPrice?.priceUsd ?? 0
DbAnswer(c) ==
    /\ priceSvc.calls[c].pc = "db"
    /\ priceSvc' = [priceSvc EXCEPT
                       !.calls[c].pc = "returned",
                       !.calls[c].result = OrElse(priceSvc.stored, 0)]
    /\ UNCHANGED <<server, clients, bt, sim, apyCalc, strategy, indexer>>

\* Date.now() advances
PriceTick ==
    /\ priceSvc.clock < MaxPriceClock
    /\ priceSvc' = [priceSvc EXCEPT !.clock = priceSvc.clock + 1]
    /\ UNCHANGED <<server, clients, bt, sim, apyCalc, strategy, indexer>>

\* ------------------------------------------------- the indexer
\* IndexerService.runIndexer, the cron tick and startBackfill, for two
\* callers whose executions interleave at the awaits.  Blocks are counted
\* from START_BLOCK in units of 200 blocks.
StartBlock == 0                         \* START_BLOCK
SnapshotInterval == 3                   \* SNAPSHOT_INTERVAL = 600
MaxRetries == 3                         \* MAX_RETRIES
CronMaxBlocks == 5                      \* runIndexer({ maxBlocks: 1000 })
MaxHead == 8                            \* the block the chain head is at
MaxIndexerCalls == 3                    \* calls and cron ticks in all

\* checkpoint is None or Some(lastIndexedBlock); succeeded and failed are the
\* snapshot blocks a run has indexed and has given up on
IdleIndexer ==
    [isRunning |-> FALSE, checkpoint |-> None, calls |-> 0,
     runs |-> [k \in Callers |->
                  [pc |-> "idle", outcome |-> "",
                   options |-> [startBlock |-> None, maxBlocks |-> None],
                   fromBlock |-> 0, toBlock |-> 0, blockNum |-> 0, attempt |-> 0,
                   succeeded |-> {}, failed |-> {}]]]

\* a runIndexer that does not look at isRunning
IdxRunCallUnguarded(k) ==
    /\ indexer.runs[k].pc \in {"idle", "backfill"}
    /\ indexer.runs[k].pc = "idle" => indexer.calls < MaxIndexerCalls
    /\ \E options \in [startBlock : {None, Some(1)},
                       maxBlocks : {None, Some(CronMaxBlocks)}] :
        /\ indexer.runs[k].pc = "backfill" =>
               options = [startBlock |-> indexer.runs[k].options.startBlock,
                          maxBlocks |-> None]
        /\ indexer' =
               [indexer EXCEPT
                   !.isRunning = TRUE,
                   !.calls = IF indexer.runs[k].pc = "idle" THEN @ + 1 ELSE @,
                   !.runs[k] = [@ EXCEPT !.pc = "checkpoint", !.outcome = "",
                                         !.options = options,
                                         !.succeeded = {}, !.failed = {}]]
    /\ UNCHANGED <<server, clients, bt, sim, apyCalc, strategy, priceSvc>>

\* lines 46-48: runIndexer is called, by a caller of the service or by
\* startBackfill (line 257, which passes startBlock only)
IdxRunCall(k) ==
    /\ indexer.runs[k].pc \in {"idle", "backfill"}
    /\ indexer.runs[k].pc = "idle" => indexer.calls < MaxIndexerCalls
    /\ \E options \in [startBlock : {None, Some(1)},
                       maxBlocks : {None, Some(CronMaxBlocks)}] :
        /\ indexer.runs[k].pc = "backfill" =>
               options = [startBlock |-> indexer.runs[k].options.startBlock,
                          maxBlocks |-> None]
        /\ indexer' =
               IF indexer.isRunning
               THEN [indexer EXCEPT
                        !.calls = IF indexer.runs[k].pc = "idle" THEN @ + 1 ELSE @,
                        !.runs[k] = [@ EXCEPT !.pc = "idle",
                                              !.outcome = "Indexer already running"]]
               ELSE [indexer EXCEPT
                        !.isRunning = TRUE,
                        !.calls = IF indexer.runs[k].pc = "idle" THEN @ + 1 ELSE @,
                        !.runs[k] = [@ EXCEPT !.pc = "checkpoint", !.outcome = "",
                                              !.options = options,
                                              !.succeeded = {}, !.failed = {}]]
    /\ UNCHANGED <<server, clients, bt, sim, apyCalc, strategy, priceSvc>>

\* lines 35-43: a cron tick
IdxCron(k) ==
    /\ indexer.runs[k].pc = "idle"
    /\ indexer.calls < MaxIndexerCalls
    /\ indexer' =
           IF indexer.isRunning
           THEN [indexer EXCEPT !.calls = @ + 1,
                                !.runs[k].outcome = "skipped"]
           ELSE [indexer EXCEPT
                    !.isRunning = TRUE,
                    !.calls = @ + 1,
                    !.runs[k] = [@ EXCEPT !.pc = "checkpoint", !.outcome = "",
                                          !.options = [startBlock |-> None,
                                                       maxBlocks |-> Some(CronMaxBlocks)],
                                          !.succeeded = {}, !.failed = {}]]
    /\ UNCHANGED <<server, clients, bt, sim, apyCalc, strategy, priceSvc>>

\* lines 246-256: startBackfill stores its start block as the checkpoint
\* before it calls runIndexer
IdxStartBackfill(k) ==
    /\ indexer.runs[k].pc = "idle"
    /\ indexer.calls < MaxIndexerCalls
    /\ \E fromBlock \in {None, Some(1)} :
        indexer' = [indexer EXCEPT
                       !.calls = @ + 1,
                       !.checkpoint = Some(OrElse(fromBlock, StartBlock)),
                       !.runs[k].pc = "backfill",
                       !.runs[k].outcome = "",
                       !.runs[k].options = [startBlock |-> fromBlock,
                                            maxBlocks |-> None]]
    /\ UNCHANGED <<server, clients, bt, sim, apyCalc, strategy, priceSvc>>

\* lines 50-65 (and 109-111 when the repository throws): the checkpoint is
\* read, created when there is none, and fromBlock is derived
IdxLoadCheckpoint(k) ==
    /\ indexer.runs[k].pc = "checkpoint"
    /\ \E ok \in BOOLEAN :
        LET run == indexer.runs[k]
            checkpoint == IF indexer.checkpoint = None
                          THEN OrElse(run.options.startBlock, StartBlock)
                          ELSE indexer.checkpoint[1]
        IN  indexer' =
                IF ok
                THEN [indexer EXCEPT
                         !.checkpoint = Some(checkpoint),
                         !.runs[k].pc = "head",
                         !.runs[k].fromBlock =
                             OrElse(run.options.startBlock, checkpoint + 1)]
                ELSE [indexer EXCEPT
                         !.isRunning = FALSE,
                         !.runs[k].pc = "idle",
                         !.runs[k].outcome = "threw"]
    /\ UNCHANGED <<server, clients, bt, sim, apyCalc, strategy, priceSvc>>

\* lines 66-79 (and 109-111): the chain head is read, toBlock is derived and
\* the loop is entered
IdxHead(k) ==
    /\ indexer.runs[k].pc = "head"
    /\ \E ok \in BOOLEAN :
        LET run == indexer.runs[k]
            toBlock == IF run.options.maxBlocks # None
                       THEN Min2(run.fromBlock + run.options.maxBlocks[1] - 1, MaxHead)
                       ELSE MaxHead
        IN  indexer' =
                IF ok
                THEN [indexer EXCEPT
                         !.runs[k].pc = IF run.fromBlock <= toBlock
                                        THEN "loop" ELSE "final",
                         !.runs[k].toBlock = toBlock,
                         !.runs[k].blockNum = run.fromBlock,
                         !.runs[k].attempt = 0]
                ELSE [indexer EXCEPT
                         !.isRunning = FALSE,
                         !.runs[k].pc = "idle",
                         !.runs[k].outcome = "threw"]
    /\ UNCHANGED <<server, clients, bt, sim, apyCalc, strategy, priceSvc>>

\* lines 80-93 with withRetry (BifrostRpcService, lines 220-234): one attempt
\* at indexBlock(snapshotBlock).  A success moves the checkpoint to the block;
\* a failure is retried MAX_RETRIES times, then logged, and the loop goes on
IdxAttempt(k) ==
    /\ indexer.runs[k].pc = "loop"
    /\ \E ok \in BOOLEAN :
        LET run == indexer.runs[k]
            snapshotBlock == Min2(run.blockNum, run.toBlock)
            next == run.blockNum + SnapshotInterval
            advanced == [run EXCEPT
                            !.blockNum = next,
                            !.attempt = 0,
                            !.pc = IF next <= run.toBlock THEN "loop" ELSE "final"]
        IN  indexer' =
                IF ok
                THEN [indexer EXCEPT
                         !.checkpoint = Some(snapshotBlock),
                         !.runs[k] = [advanced EXCEPT
                                         !.succeeded = @ \cup {snapshotBlock}]]
                ELSE IF run.attempt < MaxRetries
                THEN [indexer EXCEPT !.runs[k].attempt = run.attempt + 1]
                ELSE [indexer EXCEPT
                         !.runs[k] = [advanced EXCEPT
                                         !.failed = @ \cup {snapshotBlock}]]
    /\ UNCHANGED <<server, clients, bt, sim, apyCalc, strategy, priceSvc>>

\* lines 101-111: the checkpoint is moved to toBlock, and the finally block
\* clears isRunning whether that update returned or threw
IdxFinal(k) ==
    /\ indexer.runs[k].pc = "final"
    /\ \E ok \in BOOLEAN :
        indexer' =
            IF ok
            THEN [indexer EXCEPT
                     !.checkpoint = Some(indexer.runs[k].toBlock),
                     !.isRunning = FALSE,
                     !.runs[k].pc = "idle",
                     !.runs[k].outcome = "completed"]
            ELSE [indexer EXCEPT
                     !.isRunning = FALSE,
                     !.runs[k].pc = "idle",
                     !.runs[k].outcome = "threw"]
    /\ UNCHANGED <<server, clients, bt, sim, apyCalc, strategy, priceSvc>>

\* ------------------------------------------------- specification
Init ==
    /\ server \in Worlds
    /\ clients = 1
    /\ bt = [r \in {1} |-> IdleRun]
    /\ priceSvc = IdlePriceSvc
    /\ indexer = IdleIndexer
    /\ sim = IdleSim
    /\ apyCalc = IdleApy
    /\ strategy = IdleStrategy

Next ==
    \/ \E r \in DOMAIN bt : BtCall(r)
    \/ \E r \in DOMAIN bt : \E proto \in DOMAIN bt[r].fetch : BtFetchOk(r, proto)
    \/ \E r \in DOMAIN bt : \E proto \in DOMAIN bt[r].fetch : BtFetchFail(r, proto)
    \/ \E r \in DOMAIN bt : BtBuildStates(r)
    \/ \E r \in DOMAIN bt : BtDay(r)
    \/ \E r \in DOMAIN bt : BtFinish(r)
    \/ SimCall
    \/ SimFetchFail
    \/ SimFetchOk

Spec == Init /\ [][Next]_vars

\* runBacktest over long ranges against the zero-yield server
LongInit ==
    /\ server = WorldZero
    /\ clients = 1
    /\ bt = [r \in {1} |-> IdleRun]
    /\ priceSvc = IdlePriceSvc
    /\ indexer = IdleIndexer
    /\ sim = IdleSim
    /\ apyCalc = IdleApy
    /\ strategy = IdleStrategy

LongNext ==
    \/ BtCallWith(1, LongRequests)
    \/ \E proto \in DOMAIN bt[1].fetch : BtFetchOk(1, proto)
    \/ BtBuildStates(1)
    \/ BtDay(1)
    \/ BtFinish(1)

LongSpec == LongInit /\ [][LongNext]_vars

\* the suggestion generator on its own, holding one chain of the LLM answer
StrategyInit ==
    /\ server = WorldEmpty
    /\ clients = 0
    /\ bt = [r \in {1} |-> IdleRun]
    /\ priceSvc = IdlePriceSvc
    /\ indexer = IdleIndexer
    /\ sim = IdleSim
    /\ apyCalc = IdleApy
    /\ \E raw \in RawChains :
           strategy = [pc |-> "parsed", raw |-> raw, allocations |-> <<>>]

StrategyNext == NormaliseChain

StrategySpec == StrategyInit /\ [][StrategyNext]_vars

\* the APY calculator on its own, started when the indexer has stored all
\* blocks of the timeline but the last: the indexer stores that one while the
\* cron or an admin call derives snapshots and an admin call backfills them
ApyInit ==
    /\ server = WorldEmpty
    /\ clients = 0
    /\ bt = [r \in {1} |-> IdleRun]
    /\ priceSvc = IdlePriceSvc
    /\ indexer = IdleIndexer
    /\ sim = IdleSim
    /\ strategy = IdleStrategy
    /\ \E timeline \in Timelines :
        apyCalc = [IdleApy EXCEPT !.timeline = timeline,
                                  !.indexed = Len(timeline) - 1]

ApyNext ==
    \/ IndexRate
    \/ \E asset \in Assets : ComputeStart(asset)
    \/ ComputeWrite
    \/ \E asset \in Assets : BackfillStart(asset)
    \/ BackfillWriteOp

ApySpec == ApyInit /\ [][ApyNext]_vars

\* two runBacktest invocations in flight at once against the moving server
PairInit ==
    /\ server = WorldMoving
    /\ clients = 2
    /\ bt = [r \in Callers |-> IdleRun]
    /\ sim = IdleSim
    /\ apyCalc = IdleApy
    /\ strategy = IdleStrategy
    /\ priceSvc = IdlePriceSvc
    /\ indexer = IdleIndexer

PairNext ==
    \/ \E r \in DOMAIN bt :
           BtCallWith(r, {q \in BacktestRequests :
                             /\ q.initialAmountUsd = 2 * U
                             /\ q.from = 0
                             /\ q.to \in {2, 4}
                             /\ q.allocations \in {AllocSingle, AllocSplit}
                             /\ q.rebalanceIntervalDays = Some(1)
                             /\ q.includeIL = Some(TRUE)
                             /\ q.xcmFeeUsd = None})
    \/ \E r \in DOMAIN bt : \E proto \in DOMAIN bt[r].fetch : BtFetchOk(r, proto)
    \/ \E r \in DOMAIN bt : \E proto \in DOMAIN bt[r].fetch : BtFetchFail(r, proto)
    \/ \E r \in DOMAIN bt : BtBuildStates(r)
    \/ \E r \in DOMAIN bt : BtDay(r)
    \/ \E r \in DOMAIN bt : BtFinish(r)

PairSpec == PairInit /\ [][PairNext]_vars

\* the token price service on its own
PriceInit ==
    /\ server = WorldEmpty
    /\ clients = 0
    /\ bt = [r \in {1} |-> IdleRun]
    /\ sim = IdleSim
    /\ apyCalc = IdleApy
    /\ strategy = IdleStrategy
    /\ priceSvc = IdlePriceSvc
    /\ indexer = IdleIndexer

PriceNext ==
    \/ \E c \in Callers : PriceCall(c)
    \/ \E c \in Callers : LlamaAnswer(c)
    \/ \E c \in Callers : StoreDone(c)
    \/ \E c \in Callers : GeckoAnswer(c)
    \/ \E c \in Callers : DbAnswer(c)
    \/ PriceTick

PriceSpec == PriceInit /\ [][PriceNext]_vars

\* the indexer on its own
IndexerInit ==
    /\ server = WorldEmpty
    /\ clients = 0
    /\ bt = [r \in {1} |-> IdleRun]
    /\ sim = IdleSim
    /\ apyCalc = IdleApy
    /\ strategy = IdleStrategy
    /\ priceSvc = IdlePriceSvc
    /\ indexer = IdleIndexer

IndexerNext ==
    \/ \E k \in Callers : IdxRunCall(k)
    \/ \E k \in Callers : IdxCron(k)
    \/ \E k \in Callers : IdxStartBackfill(k)
    \/ \E k \in Callers : IdxLoadCheckpoint(k)
    \/ \E k \in Callers : IdxHead(k)
    \/ \E k \in Callers : IdxAttempt(k)
    \/ \E k \in Callers : IdxFinal(k)

IndexerSpec == IndexerInit /\ [][IndexerNext]_vars

\* ------------------------------------------------- properties
SumError == "Allocations must sum to 100%"
DateError == "from must be before to"

\* the requirement itself: the percentages sum to 100 within 0.01
SumWithinTolerance(allocations) ==
    /\ PercentageSum(allocations) >= 100 * PCT - PctTolerance
    /\ PercentageSum(allocations) <= 100 * PCT + PctTolerance

PercentagesKept(dto, entries, field) ==
    \A j \in 1..Len(entries) :
        /\ j <= Len(dto.allocations)
        /\ entries[j][field] = dto.allocations[j].percentage

\* C1: runBacktest and runSimulation reject a request whose percentages do
\* not sum to 100 within 0.01 with the allocation-sum BadRequest before any
\* request to the pools data server is issued; a request whose sum is within
\* the tolerance is never rejected for that reason, and the percentages the
\* run works with and reports are the requested ones.
C1_SumValidation ==
    /\ \A r \in DOMAIN bt :
        bt[r].pc # "idle" =>
            /\ ~SumWithinTolerance(bt[r].dto.allocations) =>
                /\ bt[r].pc = "rejected"
                /\ bt[r].error = SumError
                /\ bt[r].requestsIssued = 0
            /\ SumWithinTolerance(bt[r].dto.allocations) => bt[r].error # SumError
            /\ PercentagesKept(bt[r].dto, bt[r].allocStates, "percentage")
            /\ PercentagesKept(bt[r].dto, bt[r].breakdown, "allocationPercent")
    /\ sim.pc # "idle" =>
            /\ ~SumWithinTolerance(sim.dto.allocations) =>
                /\ sim.pc = "rejected"
                /\ sim.error = SumError
                /\ sim.requestsIssued = 0
            /\ SumWithinTolerance(sim.dto.allocations) => sim.error # SumError
            /\ PercentagesKept(sim.dto, sim.breakdown, "allocationPercent")

\* a run with a sum of 100.005 has been accepted and has finished
C1_Witness ==
    \E r \in DOMAIN bt :
        /\ bt[r].pc = "done"
        /\ PercentageSum(bt[r].dto.allocations) = 100 * PCT + 5
        /\ bt[r].breakdown # <<>>

NothingProduced(run) ==
    /\ run.requestsIssued = 0
    /\ run.breakdown = <<>>

\* C2: runBacktest and runSimulation reject a request with from >= to before
\* any fetch and before any simulation step, and produce no partial result.
C2_DateValidation ==
    /\ \A r \in DOMAIN bt :
        (bt[r].pc # "idle" /\ bt[r].dto.from >= bt[r].dto.to) =>
            /\ bt[r].pc = "rejected"
            /\ NothingProduced(bt[r])
            /\ bt[r].allocStates = <<>>
            /\ bt[r].timeSeries = <<>>
            /\ bt[r].days = <<>>
            /\ bt[r].summary = NoSummary
    /\ (sim.pc # "idle" /\ sim.dto.from >= sim.dto.to) =>
            /\ sim.pc = "rejected"
            /\ NothingProduced(sim)
            /\ sim.summary = NoSimSummary

\* a request with a valid sum and from = to has been rejected for its dates
C2_Witness ==
    /\ sim.pc = "rejected"
    /\ sim.error = DateError
    /\ sim.dto.from = sim.dto.to

\* C3: runBacktest rejects a request whose initialAmountUsd is zero or
\* negative before any fetch, and never runs the day loop on such an amount.
C3_AmountValidation ==
    \A r \in DOMAIN bt :
        (bt[r].pc # "idle" /\ bt[r].dto.initialAmountUsd <= 0) =>
            /\ bt[r].pc = "rejected"
            /\ bt[r].requestsIssued = 0
            /\ bt[r].timeSeries = <<>>

\* every allocation sampled a yield of 0 % on every simulated day
ZeroYield(run) ==
    \A j \in 1..Len(run.allocStates) :
        /\ Len(run.allocStates[j].apySamples) = Len(run.days)
        /\ \A k \in 1..Len(run.allocStates[j].apySamples) :
               run.allocStates[j].apySamples[k] = 0

\* C4 as stated: with a yield of 0 % on every day the run reports
\* finalAmountUsd equal to initialAmountUsd, whatever the options are.
C4_ZeroYieldKeepsAmount ==
    \A r \in DOMAIN bt :
        (bt[r].pc = "done" /\ ZeroYield(bt[r])) =>
            bt[r].summary.finalAmountUsd = bt[r].dto.initialAmountUsd

\* C4, amended: with a yield of 0 % on every day, no rebalance fee charged
\* and percentages that sum to exactly 100, the run reports finalAmountUsd
\* equal to initialAmountUsd rounded to four decimals, also when it
\* rebalances and when the impermanent-loss pass is on.
C4_ZeroYieldNoFees ==
    \A r \in DOMAIN bt :
        (/\ bt[r].pc = "done"
         /\ ZeroYield(bt[r])
         /\ bt[r].xcmFeesPaidUsd = 0
         /\ PercentageSum(bt[r].dto.allocations) = 100 * PCT) =>
            bt[r].summary.finalAmountUsd = ToFixed4(bt[r].dto.initialAmountUsd)

\* a zero-yield run over two protocols that rebalanced at a fee of 0 with
\* the impermanent-loss pass on, from an amount with a fifth decimal
C4_Witness ==
    \E r \in DOMAIN bt :
        /\ bt[r].pc = "done"
        /\ ZeroYield(bt[r])
        /\ bt[r].dto.allocations = AllocSplit
        /\ bt[r].dto.includeIL = Some(TRUE)
        /\ bt[r].dto.xcmFeeUsd = Some(0)
        /\ bt[r].rebalanceCount > 1
        /\ bt[r].dto.initialAmountUsd = 5 * U + 4
        /\ bt[r].summary.finalAmountUsd = 5 * U

\* the records the data server holds for the pool of an allocation
UpstreamRecords(alloc) ==
    SelectSeq(server.history,
              LAMBDA rec : /\ rec.protocol = alloc.protocol
                           /\ ToLower(rec.assetSymbol) = ToLower(alloc.assetSymbol))

AllZero(samples) == \A k \in 1..Len(samples) : samples[k] = 0

\* C5: when the history fetch of a protocol fails the run is not aborted and
\* raises no error, its result is complete, every allocation of that protocol samples 0 % on
\* every day and is reported with hasHistoricalData = false, and every
\* allocation of a protocol whose fetch succeeded samples exactly the yields
\* of its own upstream records.
C5_FailedFetchIsolated ==
    \A r \in DOMAIN bt : \A p \in DOMAIN bt[r].fetch :
        /\ bt[r].fetch[p] = "failed" =>
            /\ bt[r].pc \in {"fetching", "loop", "done"}
            /\ bt[r].error = ""
            /\ bt[r].pc = "done" =>
                /\ Len(bt[r].breakdown) = Len(bt[r].dto.allocations)
                /\ Len(bt[r].timeSeries) = Len(bt[r].days)
            /\ \A j \in 1..Len(bt[r].allocStates) :
                bt[r].allocStates[j].protocol = p =>
                    /\ AllZero(bt[r].allocStates[j].apySamples)
                    /\ bt[r].pc = "done" =>
                        /\ bt[r].breakdown[j].hasHistoricalData = FALSE
                        /\ bt[r].breakdown[j].avgApyPercent = 0
        /\ bt[r].fetch[p] = "ok" =>
            \A j \in 1..Len(bt[r].allocStates) :
                bt[r].allocStates[j].protocol = p =>
                    LET own == buildApyMap(UpstreamRecords(bt[r].dto.allocations[j]))
                        samples == bt[r].allocStates[j].apySamples
                    IN  /\ \A k \in 1..Len(samples) :
                               samples[k] = getApyForDay(own, bt[r].days[k])
                        /\ bt[r].pc = "done" =>
                               bt[r].breakdown[j].hasHistoricalData = (DOMAIN own # {})

\* a finished run in which the bifrost fetch failed and the hydration fetch
\* answered with yields that are not 0
C5_Witness ==
    \E r \in DOMAIN bt :
        /\ bt[r].pc = "done"
        /\ bt[r].dto.allocations = AllocSplit
        /\ bt[r].fetch["bifrost"] = "failed"
        /\ bt[r].fetch["hydration"] = "ok"
        /\ bt[r].breakdown[1].hasHistoricalData = FALSE
        /\ bt[r].breakdown[2].hasHistoricalData = TRUE
        /\ ~AllZero(bt[r].allocStates[2].apySamples)
        /\ Len(bt[r].days) > 2

\* the pools the data server lists for an allocation
UpstreamPools(alloc) ==
    SelectSeq(server.pools,
              LAMBDA pool : /\ ToLower(pool.protocol) = ToLower(alloc.protocol)
                            /\ ToLower(pool.assetSymbol) = ToLower(alloc.assetSymbol))

\* one allocation simulated on its own over the days of a run
RECURSIVE GrowOver(_, _, _)
GrowOver(state, days, i) ==
    IF i >= Len(days) THEN state
    ELSE GrowOver(GrowState(state, days[i + 1], i), days, i + 1)

StandaloneFinalUsd(run, j) ==
    LET start == MakeAllocState(run.dto.allocations[j], run.cache,
                                run.dto.initialAmountUsd)
        grown == GrowOver(start, run.days, 0)
        final == IF OrElse(run.dto.includeIL, FALSE) THEN ApplyIL(grown) ELSE grown
    IN  ToFixed4(final.valueUsd)

BacktestMissingRecordIsolated(run) ==
    \A j \in 1..Len(run.breakdown) :
        IF UpstreamRecords(run.dto.allocations[j]) = <<>>
        THEN /\ run.breakdown[j].finalUsd = run.breakdown[j].allocatedUsd
             /\ run.breakdown[j].returnUsd = 0
             /\ run.breakdown[j].hasHistoricalData = FALSE
        ELSE run.breakdown[j].finalUsd = StandaloneFinalUsd(run, j)

SimulationMissingPoolIsolated ==
    \A j \in 1..Len(sim.breakdown) :
        LET alloc == sim.dto.allocations[j]
            allocatedUsd == MulDiv(sim.dto.initialAmountUsd, alloc.percentage, 100 * PCT)
        IN  IF UpstreamPools(alloc) = <<>>
            THEN /\ sim.breakdown[j].finalUsd = sim.breakdown[j].allocatedUsd
                 /\ sim.breakdown[j].returnUsd = 0
                 /\ sim.breakdown[j].apyUsed = None
                 /\ sim.breakdown[j].warning = "Pool not found in data server"
            ELSE /\ sim.breakdown[j].warning = ""
                 /\ sim.breakdown[j].finalUsd =
                        ToFixed4(SimFinalUsd(allocatedUsd, UpstreamPools(alloc)[1].totalApy,
                                             SimDuration(sim.dto.from, sim.dto.to)))

\* C6 as stated: in runSimulation, and in runBacktest under any options, an
\* allocation without a matching upstream record ends with its allocated
\* value and is annotated as not found, and the other allocations end with
\* the values they reach on their own.
C6_MissingRecordAnyOptions ==
    /\ \A r \in DOMAIN bt : bt[r].pc = "done" => BacktestMissingRecordIsolated(bt[r])
    /\ sim.pc = "done" => SimulationMissingPoolIsolated

\* C6, amended: the same, for runSimulation and for every runBacktest run in
\* which no rebalance took place.
C6_MissingRecordNoRebalance ==
    /\ \A r \in DOMAIN bt :
        (bt[r].pc = "done" /\ bt[r].rebalanceCount = 0) =>
            BacktestMissingRecordIsolated(bt[r])
    /\ sim.pc = "done" => SimulationMissingPoolIsolated

\* a finished run without rebalance in which vKSM has no upstream record and
\* kept its allocated value while vDOT grew, with the impermanent-loss pass on
C6_Witness ==
    \E r \in DOMAIN bt :
        /\ bt[r].pc = "done"
        /\ bt[r].rebalanceCount = 0
        /\ bt[r].dto.allocations = AllocNear
        /\ bt[r].dto.includeIL = Some(TRUE)
        /\ UpstreamRecords(AllocNear[2]) = <<>>
        /\ bt[r].breakdown[2].hasHistoricalData = FALSE
        /\ bt[r].breakdown[2].finalUsd = bt[r].breakdown[2].allocatedUsd
        /\ bt[r].breakdown[1].finalUsd > bt[r].breakdown[1].allocatedUsd

NonNegativeJS(x) == (x.k = "fin" /\ x.v >= 0) \/ (x.k = "inf" /\ x.v > 0)

\* the drawdown of the latest simulated day, from the peak and the total
CurrentDrawdown(run) ==
    DivJS(run.peakValue - run.prevTotalValue, run.peakValue, 100 * RP)

DrawdownState(run) ==
    run.pc \in {"loop", "done"} =>
        /\ NonNegativeJS(run.maxDrawdown)
        /\ run.peakValue >= run.dto.initialAmountUsd
        /\ run.peakValue >= run.prevTotalValue
        /\ run.peakValue \in {run.dto.initialAmountUsd, run.prevTotalValue}
               \/ run.peakValue > run.prevTotalValue
        /\ ~GtJS(CurrentDrawdown(run), run.maxDrawdown)

DrawdownStep(old, new) ==
    (old.pc = "loop" /\ new.pc \in {"loop", "done"}) =>
        /\ new.maxDrawdown = old.maxDrawdown \/ GtJS(new.maxDrawdown, old.maxDrawdown)
        /\ new.peakValue = Max2(old.peakValue, new.prevTotalValue)

\* C7: within a run the maximum drawdown is never negative and never
\* decreases from one day to the next; the peak is the largest total seen so
\* far, starting from the initial amount, and the maximum is never below the
\* drawdown (peak - current) / peak of the latest day.
C7_DrawdownMonotone ==
    /\ [](\A r \in {1} : DrawdownState(bt[r]))
    /\ [][\A r \in {1} : DrawdownStep(bt[r], bt'[r])]_vars

\* after a fee pulled the total down, the portfolio has partly recovered: the
\* latest drawdown is positive and below the maximum
C7_Witness ==
    \E r \in DOMAIN bt :
        /\ bt[r].pc = "loop"
        /\ bt[r].i >= 3
        /\ bt[r].maxDrawdown.k = "fin"
        /\ CurrentDrawdown(bt[r]).k = "fin"
        /\ CurrentDrawdown(bt[r]).v > 0
        /\ CurrentDrawdown(bt[r]).v < bt[r].maxDrawdown.v

\* the standard deviation of the recorded daily returns is 0
ReturnsAllEqual(returns) ==
    \A j \in 1..Len(returns) :
        /\ IsFinite(returns[j])
        /\ returns[j] = returns[1]

\* C8: the reported Sharpe ratio is exactly 0 when there are fewer than two
\* daily-return samples or when their standard deviation is 0, and it is
\* never NaN or infinite.
C8_SharpeDefined ==
    \A r \in DOMAIN bt :
        bt[r].pc = "done" =>
            LET returns == DailyReturns(bt[r].timeSeries)
            IN  /\ IsFinite(bt[r].summary.sharpeRatio)
                /\ Len(returns) < 2 => bt[r].summary.sharpeRatio = Fin(0)
                /\ ReturnsAllEqual(returns) => bt[r].summary.sharpeRatio = Fin(0)

\* the consecutive UTC days from the day of `from` to the day of `to`
CalendarDays(from, to) ==
    [k \in 1..(DayOf(to) - DayOf(from) + 1) |-> DayOf(from) + k - 1]

\* C9: the day list of an accepted run is the consecutive UTC days from the
\* day of the start date to the day of the end date, both included; the loop
\* records one point per day of the list, in order, and durationDays is the
\* number of points minus one.
C9_DayListInclusive ==
    \A r \in DOMAIN bt :
        bt[r].pc \in {"fetching", "loop", "done"} =>
            /\ bt[r].days = CalendarDays(bt[r].dto.from, bt[r].dto.to)
            /\ bt[r].durationDays = Len(bt[r].days) - 1
            /\ Len(bt[r].timeSeries) = bt[r].i
            /\ \A k \in 1..Len(bt[r].timeSeries) :
                   bt[r].timeSeries[k].date = bt[r].days[k]
            /\ bt[r].pc = "done" =>
                   bt[r].summary.durationDays = Len(bt[r].timeSeries) - 1

\* C10: on day 0 every allocation holds initialAmountUsd * percentage / 100
\* with no growth applied and the day-0 point has a daily return of 0; the
\* weighted-average yield of a quick simulation is the sum of
\* apyUsed * percentage / 100 over the allocations, a pool that was not found
\* contributing 0.
C10_DayZeroAndWeightedApy ==
    /\ \A r \in DOMAIN bt :
        (bt[r].pc = "loop" /\ bt[r].i = 1) =>
            /\ \A j \in 1..Len(bt[r].allocStates) :
                   bt[r].allocStates[j].valueUsd =
                       MulDiv(bt[r].dto.initialAmountUsd,
                              bt[r].dto.allocations[j].percentage, 100 * PCT)
            /\ bt[r].timeSeries[1].dailyReturnPct = Fin(0)
            /\ bt[r].timeSeries[1].totalValueUsd =
                   ToFixed4(TotalValue(bt[r].allocStates))
    /\ sim.pc = "done" =>
        sim.summary.weightedAvgApyPercent =
            ToFixed4(SumSeq([j \in 1..Len(sim.dto.allocations) |->
                LET alloc == sim.dto.allocations[j]
                    apy == IF UpstreamPools(alloc) = <<>> THEN 0
                           ELSE UpstreamPools(alloc)[1].totalApy
                IN  MulDiv(apy * (RP \div PCT), alloc.percentage, 100 * PCT)]))

\* day 0 of a 60/40 split of 2 USD over pools that yield 10 % a day: the
\* allocations hold 1.2 and 0.8 USD
C10_Witness ==
    \E r \in DOMAIN bt :
        /\ bt[r].pc = "loop"
        /\ bt[r].i = 1
        /\ bt[r].dto.allocations = AllocSplit
        /\ bt[r].dto.initialAmountUsd = 2 * U
        /\ bt[r].allocStates[1].valueUsd = (12 * U) \div 10
        /\ bt[r].allocStates[2].valueUsd = (8 * U) \div 10
        /\ bt[r].allocStates[2].apySamples[1] > 0


\* ------------------------------------------------- APY calculator claims
\* the snapshot that a finished computeApyForAsset call left in the store
\* is the document it wrote
ComputedPairs ==
    {p \in (DOMAIN apyCalc.computed) \X (DOMAIN apyCalc.computed) :
        /\ p[1] < p[2]
        /\ apyCalc.computed[p[1]].asset = apyCalc.computed[p[2]].asset
        /\ apyCalc.computed[p[1]].seen = apyCalc.computed[p[2]].seen}

\* C11: two computeApyForAsset calls for the same asset against unchanged
\* rate observations leave the same snapshot: the same key and the same value
\* in every stored field.
C11_RecomputeIdentical ==
    \A p \in ComputedPairs :
        apyCalc.computed[p[1]].doc = apyCalc.computed[p[2]].doc

\* the key and the derived values of a snapshot document: every stored field
\* but the price and the creation time, which belong to the call
YieldPart(doc) ==
    [asset |-> doc.asset, timestamp |-> doc.timestamp,
     granularity |-> doc.granularity, blockNumber |-> doc.blockNumber,
     stakingApyPercent |-> doc.stakingApyPercent,
     farmingAprPercent |-> doc.farmingAprPercent,
     totalApyPercent |-> doc.totalApyPercent,
     apy7d |-> doc.apy7d, apy30d |-> doc.apy30d,
     exchangeRateHuman |-> doc.exchangeRateHuman]

\* what computeApyForAsset derives when `current` is the latest observation
\* of `rates`: its two windows, looked up as lines 55-71 do
SinglePointWindows(rates, current) ==
    [apy7d |-> WindowApy(current, FindOneDesc(SelectSeq(rates, LAMBDA r :
                   r.timestamp <= current.timestamp - WeekHalfDays), "timestamp")),
     apy30d |-> WindowApy(current, FindOneDesc(SelectSeq(rates, LAMBDA r :
                   r.timestamp <= current.timestamp - MonthHalfDays), "timestamp"))]
SinglePointYield(rates, current) ==
    LET w == SinglePointWindows(rates, current)
    IN  YieldPart(SnapshotDoc(current, w.apy7d, w.apy30d, 0, Chain, 0))
SinglePointPositive(rates, current) ==
    LET w == SinglePointWindows(rates, current)
    IN  StakingApy(w.apy7d, w.apy30d) > 0

\* the latest observation of every calendar day among the rates a backfill
\* call read
DaysOf(allRates) ==
    {r \in {allRates[j] : j \in 1..Len(allRates)} :
        \A j \in 1..Len(allRates) :
            DayOf(allRates[j].timestamp) = DayOf(r.timestamp) =>
                allRates[j].timestamp <= r.timestamp}
YieldsOf(bulkOps) == {YieldPart(bulkOps[j].doc) : j \in 1..Len(bulkOps)}
BackfillDays == DaysOf(apyCalc.backfill.allRates)
BackfillYields == YieldsOf(apyCalc.backfill.bulkOps)

\* C12 as stated: for each calendar day's latest observation the backfill
\* writes exactly the snapshot key and yield values that a single
\* computeApyForAsset call with that observation as current would write.
C12_BackfillEqualsSinglePoint ==
    apyCalc.backfill.pc # "idle" =>
        BackfillYields =
            {SinglePointYield(apyCalc.backfill.allRates, r) : r \in BackfillDays}

\* the operations of the backfill call are one per day whose derived
\* staking yield is positive, each with the key and the yield values of the
\* single-point computation
MatchesPositiveSinglePoints(backfill) ==
    /\ YieldsOf(backfill.bulkOps) =
           {SinglePointYield(backfill.allRates, r) :
               r \in {d \in DaysOf(backfill.allRates) :
                         SinglePointPositive(backfill.allRates, d)}}
    /\ Len(backfill.bulkOps) = Cardinality(YieldsOf(backfill.bulkOps))
    /\ backfill.count = Len(backfill.bulkOps)

\* a step in which a backfill call has read the rates and prepared its
\* operations
BackfillPrepared ==
    /\ apyCalc'.backfill # apyCalc.backfill
    /\ apyCalc'.backfill.pc # "idle"
    /\ apyCalc'.backfill.applied = 0

\* C12, amended: the backfill writes exactly the days whose derived staking
\* yield is positive, each with the key and the yield values of the
\* single-point computation.
C12_BackfillEqualsPositiveSinglePoints ==
    [][BackfillPrepared => MatchesPositiveSinglePoints(apyCalc'.backfill)]_vars

\* a backfill over a history with a day of two observations prepared at least
\* two snapshots and left a day without one, and has applied them all
C12_Witness ==
    /\ apyCalc.backfill.pc = "done"
    /\ apyCalc.backfill.applied >= 2
    /\ Cardinality(BackfillDays) > apyCalc.backfill.count
    /\ Len(apyCalc.backfill.allRates) > Cardinality(BackfillDays)
    /\ \A j \in 1..Len(apyCalc.backfill.bulkOps) :
           \E k \in 1..Len(apyCalc.snapshots) :
               YieldPart(apyCalc.snapshots[k]) =
                   YieldPart(apyCalc.backfill.bulkOps[j].doc)

SnapshotKeys(store) == {IndexKey(store[j]) : j \in 1..Len(store)}
NoDuplicateKeys ==
    \A j, k \in 1..Len(apyCalc.snapshots) :
        j # k => IndexKey(apyCalc.snapshots[j]) # IndexKey(apyCalc.snapshots[k])

\* a write either adds one snapshot under a key the store did not hold, or
\* replaces the snapshot of one key where it is
WriteInPlace ==
    LET old == apyCalc.snapshots
        new == apyCalc'.snapshots
    IN  new # old =>
            \/ /\ Len(new) = Len(old) + 1
               /\ SubSeq(new, 1, Len(old)) = old
               /\ IndexKey(new[Len(new)]) \notin SnapshotKeys(old)
            \/ /\ Len(new) = Len(old)
               /\ \E j \in 1..Len(old) :
                      /\ new = [old EXCEPT ![j] = new[j]]
                      /\ IndexKey(new[j]) = IndexKey(old[j])

\* C13: under every interleaving of computeApyForAsset and backfillApyHistory
\* calls the store holds at most one snapshot per (asset, timestamp,
\* granularity), and a write for an existing key overwrites it in place.
C13_OneSnapshotPerKey == [](NoDuplicateKeys) /\ [][WriteInPlace]_vars

\* the store holds several snapshots, and the one a computeApyForAsset call
\* wrote has since been overwritten under its key by a later call
C13_Witness ==
    /\ Len(apyCalc.snapshots) >= 2
    /\ \E c \in {apyCalc.computed[j] : j \in 1..Len(apyCalc.computed)} :
           \E k \in 1..Len(apyCalc.snapshots) :
               /\ IndexKey(apyCalc.snapshots[k]) = IndexKey(c.doc)
               /\ apyCalc.snapshots[k].createdAt > c.doc.createdAt

\* every snapshot document the calculator has derived: stored, written by a
\* finished compute call, or prepared by a backfill call
DerivedBy(calc) ==
    {calc.snapshots[j] : j \in 1..Len(calc.snapshots)}
    \cup {calc.computed[j].doc : j \in 1..Len(calc.computed)}
    \cup {calc.backfill.bulkOps[j].doc : j \in 1..Len(calc.backfill.bulkOps)}
DerivedDocs == DerivedBy(apyCalc)

\* the two annualized window figures behind a derived document, taken from the
\* stored rates of its asset with its own observation as current
WindowsIn(rates, doc) ==
    LET mine == RatesOf(rates, doc.asset)
        current == CHOOSE r \in {mine[j] : j \in 1..Len(mine)} :
                       r.blockNumber = doc.blockNumber
    IN  SinglePointWindows(mine, current)
WindowsOf(doc) == WindowsIn(StoredRates, doc)

SevenDayFirst(rates, doc) ==
    LET w == WindowsIn(rates, doc)
    IN  doc.stakingApyPercent =
            PercentFixed4(IF w.apy7d > 0 THEN w.apy7d
                          ELSE IF w.apy30d > 0 THEN w.apy30d
                          ELSE 0)

\* C14: stakingApyPercent is 100 x the 7-day figure when that is positive,
\* otherwise 100 x the 30-day figure when that is positive, otherwise 0; the
\* two windows are never blended.  Stated of every document at the step that
\* derives it.
C14_SevenDayPrecedence ==
    [][\A doc \in DerivedBy(apyCalc') \ DerivedBy(apyCalc) :
           SevenDayFirst(SubSeq(apyCalc'.timeline, 1, apyCalc'.indexed), doc)]_vars

\* the store holds a snapshot whose two windows are positive and different
C14_Witness ==
    \E j \in 1..Len(apyCalc.snapshots) :
        LET w == WindowsOf(apyCalc.snapshots[j])
        IN  /\ w.apy7d > 0
            /\ w.apy30d > 0
            /\ PercentFixed4(w.apy7d) # PercentFixed4(w.apy30d)
            /\ apyCalc.snapshots[j].stakingApyPercent > 0

\* a derived snapshot whose 7-day window is 0 and whose 30-day window is not
ThirtyDayFallback ==
    \E doc \in DerivedDocs :
        LET w == WindowsOf(doc)
        IN  w.apy7d = 0 /\ PercentFixed4(w.apy30d) > 0

\* the observation a derived document was computed for, and the reference
\* observations of its window of `span` half days: the stored rates of the
\* asset that are at least `span` older
CurrentOf(doc) ==
    CHOOSE r \in {StoredRates[j] : j \in 1..Len(StoredRates)} :
        r.tokenSymbol = doc.asset /\ r.blockNumber = doc.blockNumber
ReferenceOf(doc, span) ==
    LET older == {r \in {StoredRates[j] : j \in 1..Len(StoredRates)} :
                     /\ r.tokenSymbol = doc.asset
                     /\ r.timestamp <= doc.timestamp - span}
    IN  {r \in older : \A o \in older : o.timestamp <= r.timestamp}
NoContribution(doc, span) ==
    \E ref \in ReferenceOf(doc, span) :
        \/ ref.exchangeRateHuman <= 0
        \/ ref.exchangeRateHuman >= CurrentOf(doc).exchangeRateHuman

\* C15: a window whose reference rate is zero or negative, or not strictly
\* below the current rate, contributes exactly 0; apy7d, apy30d,
\* stakingApyPercent and totalApyPercent of every snapshot are >= 0.
C15_NoNegativeYield ==
    \A doc \in DerivedDocs :
        /\ NoContribution(doc, WeekHalfDays) => doc.apy7d = 0
        /\ NoContribution(doc, MonthHalfDays) => doc.apy30d = 0
        /\ (NoContribution(doc, WeekHalfDays) /\ doc.apy30d = 0) =>
               doc.stakingApyPercent = 0 /\ doc.totalApyPercent = 0
        /\ doc.apy7d >= 0
        /\ doc.apy30d >= 0
        /\ doc.stakingApyPercent >= 0
        /\ doc.totalApyPercent >= 0

\* the store holds a snapshot whose 7-day reference rate is zero or is not
\* below the current rate
C15_Witness ==
    \E j \in 1..Len(apyCalc.snapshots) :
        /\ NoContribution(apyCalc.snapshots[j], WeekHalfDays)
        /\ apyCalc.snapshots[j].apy7d = 0

\* ------------------------------------------------- downsampling claims
\* C16: the timeSeries returned by runBacktest has at most 500 points, for
\* every length of the daily series.
C16_SeriesWithinCap ==
    \A r \in DOMAIN bt :
        bt[r].pc = "done" => Len(bt[r].resultSeries) <= 500

\* the position in the daily series of every returned point (the daily
\* points differ in their dates)
SourceIndex(run, k) ==
    {j \in 1..Len(run.timeSeries) : run.timeSeries[j] = run.resultSeries[k]}
Occurrences(run, point) ==
    Cardinality({k \in 1..Len(run.resultSeries) : run.resultSeries[k] = point})

\* C17: the returned timeSeries is an order-preserving subsequence of the
\* daily series that contains its first and its final point, each once; a
\* daily series of at most 500 points is returned unchanged.
C17_OrderedSubsequence ==
    \A r \in DOMAIN bt :
        bt[r].pc = "done" =>
            LET run == bt[r]
                n == Len(run.timeSeries)
                m == Len(run.resultSeries)
            IN  /\ \A k \in 1..m : Cardinality(SourceIndex(run, k)) = 1
                /\ \A k \in 1..(m - 1) :
                       \A a \in SourceIndex(run, k) :
                           \A b \in SourceIndex(run, k + 1) : a < b
                /\ n > 0 => /\ Occurrences(run, run.timeSeries[1]) = 1
                            /\ Occurrences(run, run.timeSeries[n]) = 1
                            /\ run.resultSeries[1] = run.timeSeries[1]
                            /\ run.resultSeries[m] = run.timeSeries[n]
                /\ n <= 500 => run.resultSeries = run.timeSeries

\* a run over more than 500 days has returned fewer points than days, its
\* final day being one that the stride alone would have skipped
C17_Witness ==
    \E r \in DOMAIN bt :
        /\ bt[r].pc = "done"
        /\ Len(bt[r].timeSeries) > 500
        /\ Len(bt[r].resultSeries) < Len(bt[r].timeSeries)
        /\ (Len(bt[r].timeSeries) - 1)
               % ((Len(bt[r].timeSeries) + 499) \div 500) # 0

\* ------------------------------------------------- normalisation claims
\* C18: a normalised chain with a non-empty allocation list has percentages
\* that sum to exactly 100.
C18_NormalisedSumsTo100 ==
    (strategy.pc = "normalised" /\ strategy.allocations # <<>>) =>
        SumSeq([j \in 1..Len(strategy.allocations) |->
                   strategy.allocations[j].percentage]) = 100 * PCT

\* ------------------------------------------------- day loop claims
\* the dates with data strictly before and strictly after a day
DatesBefore(map, day) == {k \in DOMAIN map : k < day}
DatesAfter(map, day) == {k \in DOMAIN map : k > day}
FallbackYield(map, day) ==
    IF day \in DOMAIN map THEN map[day]
    ELSE IF DatesBefore(map, day) # {}
    THEN map[CHOOSE k \in DatesBefore(map, day) :
                 \A o \in DatesBefore(map, day) : o <= k]
    ELSE IF DatesAfter(map, day) # {}
    THEN map[CHOOSE k \in DatesAfter(map, day) :
                 \A o \in DatesAfter(map, day) : k <= o]
    ELSE 0

\* C19: the yield the day loop uses for a day is the value at that date if
\* present, otherwise the value at the latest earlier date with data,
\* otherwise the value at the earliest later date with data, otherwise 0.
C19_YieldFallbackOrder ==
    \A r \in DOMAIN bt :
        \A j \in 1..Len(bt[r].allocStates) :
            LET state == bt[r].allocStates[j]
            IN  \A k \in 1..Len(state.apySamples) :
                    state.apySamples[k] =
                        FallbackYield(state.apyHistory, bt[r].days[k])

\* a finished run in which one allocation sampled a day before its first
\* date with data and a day after its last one, neither being a date with
\* data, and got a yield other than 0 for both
C19_Witness ==
    \E r \in DOMAIN bt :
        /\ bt[r].pc = "done"
        /\ \E j \in 1..Len(bt[r].allocStates) :
               LET state == bt[r].allocStates[j]
                   unknown == {k \in 1..Len(state.apySamples) :
                                  bt[r].days[k] \notin DOMAIN state.apyHistory}
               IN  /\ \E k \in unknown :
                          /\ DatesBefore(state.apyHistory, bt[r].days[k]) = {}
                          /\ state.apySamples[k] # 0
                   /\ \E k \in unknown :
                          /\ DatesBefore(state.apyHistory, bt[r].days[k]) # {}
                          /\ state.apySamples[k] # 0

\* the day indices among the first `n` days after day 0 that are exact
\* multiples of a positive interval
MultiplesUpTo(interval, n) ==
    {i \in 1..n : interval > 0 /\ i % interval = 0}

\* C20: a rebalance happens on day index i exactly when the interval is
\* positive, i > 0 and i is a multiple of the interval: after every day the
\* number of rebalances is the number of such indices so far, rebalancedCount
\* is their number in 1..durationDays, and with an interval of 0 there is no
\* rebalance and no fee.
C20_RebalanceSchedule ==
    \A r \in DOMAIN bt :
        bt[r].pc \in {"loop", "done"} =>
            LET run == bt[r]
                interval == OrElse(run.dto.rebalanceIntervalDays, 0)
            IN  /\ run.rebalanceCount =
                       Cardinality(MultiplesUpTo(interval, run.i - 1))
                /\ run.pc = "done" =>
                       /\ run.summary.rebalancedCount =
                              Cardinality(MultiplesUpTo(interval, run.durationDays))
                       /\ run.summary.durationDays = run.durationDays
                /\ interval = 0 =>
                       /\ run.rebalanceCount = 0
                       /\ run.xcmFeesPaidUsd = 0
                       /\ run.pc = "done" => run.summary.xcmFeesPaidUsd = 0

\* a finished run of three days after day 0 with an interval of 2 has
\* rebalanced once, on day 2, and paid a fee
C20_Witness ==
    \E r \in DOMAIN bt :
        /\ bt[r].pc = "done"
        /\ bt[r].dto.rebalanceIntervalDays = Some(2)
        /\ bt[r].durationDays = 3
        /\ bt[r].summary.rebalancedCount = 1
        /\ bt[r].summary.xcmFeesPaidUsd > 0

\* ------------------------------------------------- rebalancing claims
\* the value of allocation j on entering the rebalance of a day: its value
\* of the day before, compounded with the yield sampled for the day
ValueBeforeRebalance(old, new, j) ==
    LET samples == new.allocStates[j].apySamples
    IN  MulDiv(old.allocStates[j].valueUsd, ApyDen + samples[Len(samples)], ApyDen)

RebalanceFee(run) ==
    OrElse(run.dto.xcmFeeUsd, DefaultXcmFeeUsd)
        * (Cardinality({run.dto.allocations[j].protocol :
                           j \in 1..Len(run.dto.allocations)}) - 1)

RebalanceStep(old, new) ==
    (old.pc = "loop" /\ new.rebalanceCount = old.rebalanceCount + 1) =>
        LET n == Len(old.allocStates)
            totalBefore == SumSeq([j \in 1..n |-> ValueBeforeRebalance(old, new, j)])
        IN  /\ new.xcmFeesPaidUsd = old.xcmFeesPaidUsd + RebalanceFee(old)
            /\ \A j \in 1..n :
                   new.allocStates[j].valueUsd =
                       MulDiv(totalBefore - RebalanceFee(old),
                              old.dto.allocations[j].percentage, 100 * PCT)

\* C21: a rebalance event deducts xcmFeeUsd x (distinct protocols - 1) once,
\* adds it to xcmFeesPaidUsd, and leaves every allocation with its original
\* target percentage of the total value before the event minus the fee.
C21_RebalanceFeeAndTargets ==
    [][\A r \in {1} : RebalanceStep(bt[r], bt'[r])]_vars

\* a run over two protocols with yields other than 0 has just rebalanced and
\* paid a fee
C21_Witness ==
    \E r \in DOMAIN bt :
        /\ bt[r].pc = "loop"
        /\ bt[r].rebalanceCount >= 1
        /\ bt[r].xcmFeesPaidUsd > 0
        /\ Len(bt[r].allocStates) = 2
        /\ isRebalanceDay(OrElse(bt[r].dto.rebalanceIntervalDays, 0), bt[r].i - 1)
        /\ \A j \in 1..2 : \E k \in 1..Len(bt[r].allocStates[j].apySamples) :
               bt[r].allocStates[j].apySamples[k] # 0

\* ------------------------------------------------- impermanent-loss claims
\* the amount the claim has deducted from a liquidity-pool allocation
ExpectedILLoss(state) ==
    LET ratio == estimatePriceRatio(Len(state.apySamples), state.apySamples)
    IN  MulDiv(state.valueUsd, Abs(calculateIL(ratio)), 10000)

RatioInRange(state) ==
    LET ratio == estimatePriceRatio(Len(state.apySamples), state.apySamples)
    IN  10000 <= ratio /\ ratio <= 13000

ILDeducted(run, j) ==
    /\ OrElse(run.dto.includeIL, FALSE)
    /\ run.dto.allocations[j].poolType \in {Some("dex"), Some("farming")}

NoILInLoop(run) ==
    run.pc = "loop" => \A j \in 1..Len(run.allocStates) :
                           run.allocStates[j].ilLossUsd = 0

ILStep(old, new) ==
    (old.pc = "loop" /\ new.pc = "done") =>
        \A j \in 1..Len(old.allocStates) :
            IF ILDeducted(old, j)
            THEN /\ RatioInRange(old.allocStates[j])
                 /\ new.allocStates[j].valueUsd =
                        old.allocStates[j].valueUsd
                            - ExpectedILLoss(old.allocStates[j])
            ELSE /\ new.allocStates[j].valueUsd = old.allocStates[j].valueUsd
                 /\ new.allocStates[j].ilLossUsd = 0
                 /\ new.breakdown[j].ilLossUsd = 0

\* C22: impermanent loss is deducted after the day loop only, when includeIL
\* is true, from dex and farming allocations only, as |IL(r)| x value with
\* r in [1, 1.3]; every other value is unchanged with ilLossUsd = 0.
C22_ImpermanentLossScope ==
    /\ [](\A r \in {1} : NoILInLoop(bt[r]))
    /\ [][\A r \in {1} : ILStep(bt[r], bt'[r])]_vars

\* a finished run with includeIL that took a loss from its dex allocation and
\* none from its staking allocation
C22_Witness ==
    \E r \in DOMAIN bt :
        /\ bt[r].pc = "done"
        /\ bt[r].summary.ilIncluded
        /\ Len(bt[r].allocStates) = 2
        /\ bt[r].allocStates[1].poolType = "vstaking"
        /\ bt[r].allocStates[1].ilLossUsd = 0
        /\ bt[r].allocStates[2].poolType = "dex"
        /\ bt[r].allocStates[2].ilLossUsd > 0

\* ------------------------------------------------- history-map claims
\* the yield the claim gives a record: supplyApy + rewardApy when the record
\* carries both, else totalApy, else supplyApy
SupplyPlusRewardFirst(rec) ==
    IF rec.rewardApy # None THEN rec.supplyApy + rec.rewardApy[1]
    ELSE IF rec.totalApy # None THEN rec.totalApy[1]
    ELSE rec.supplyApy

\* the records a run fetched for allocation j
RecordsOf(run, j) ==
    LET alloc == run.dto.allocations[j]
    IN  SelectSeq(IF alloc.protocol \in DOMAIN run.cache
                  THEN run.cache[alloc.protocol] ELSE <<>>,
                  LAMBDA rec : ToLower(rec.assetSymbol) = ToLower(alloc.assetSymbol))

LastOfItsDay(records, k) ==
    \A m \in (k + 1)..Len(records) :
        DayOf(records[m].dataTimestamp) # DayOf(records[k].dataTimestamp)

\* C27: buildApyMap maps each day to supplyApy + rewardApy of the day's
\* record when those are available and to totalApy (or supplyApy) otherwise.
C27_SupplyPlusRewardPreferred ==
    \A r \in DOMAIN bt :
        bt[r].pc \in {"loop", "done"} =>
            \A j \in 1..Len(bt[r].allocStates) :
                LET records == RecordsOf(bt[r], j)
                    map == bt[r].allocStates[j].apyHistory
                IN  \A k \in 1..Len(records) :
                        LastOfItsDay(records, k) =>
                            /\ DayOf(records[k].dataTimestamp) \in DOMAIN map
                            /\ map[DayOf(records[k].dataTimestamp)]
                                   = SupplyPlusRewardFirst(records[k])

\* ------------------------------------------------- history-fetch claims
DistinctProtocols(dto) ==
    {dto.allocations[j].protocol : j \in 1..Len(dto.allocations)}

\* one request per distinct protocol, each pending, answered or failed
OneFetchPerProtocol(run) ==
    run.pc \in {"fetching", "loop", "done"} =>
        /\ DOMAIN run.fetch = DistinctProtocols(run.dto)
        /\ run.requestsIssued = Cardinality(DistinctProtocols(run.dto))

\* what the run holds for a protocol depends on the outcome of its request
\* alone, and the history maps on that
SettledByOutcome(run, world) ==
    run.pc \in {"loop", "done"} =>
        /\ \A p \in DOMAIN run.fetch :
               /\ run.fetch[p] \in {"ok", "failed"}
               /\ run.cache[p] =
                      IF run.fetch[p] = "ok"
                      THEN SelectSeq(world.history, LAMBDA rec : rec.protocol = p)
                      ELSE <<>>
        /\ \A j \in 1..Len(run.allocStates) :
               run.allocStates[j].apyHistory = buildApyMap(RecordsOf(run, j))

LoopFetchesNothing(old, new) ==
    old.pc = "loop" =>
        /\ new.requestsIssued = old.requestsIssued
        /\ new.fetch = old.fetch
        /\ new.cache = old.cache
        /\ \A j \in 1..Len(old.allocStates) :
               new.allocStates[j].apyHistory = old.allocStates[j].apyHistory

\* C23: one history fetch per distinct protocol; the fetches settle in any
\* order; the day loop starts only when all have settled and fetches
\* nothing; what the run computes from depends on the outcomes, not on
\* their order.
C23_FetchOncePerProtocol ==
    /\ [](\A r \in {1} : OneFetchPerProtocol(bt[r]) /\ SettledByOutcome(bt[r], server))
    /\ [][\A r \in {1} : LoopFetchesNothing(bt[r], bt'[r])]_vars

\* a day loop over two protocols, one answered and one failed
C23_Witness ==
    \E r \in DOMAIN bt :
        /\ bt[r].pc = "loop"
        /\ bt[r].i > 0
        /\ Cardinality(DOMAIN bt[r].fetch) = 2
        /\ \E p, q \in DOMAIN bt[r].fetch :
               bt[r].fetch[p] = "ok" /\ bt[r].fetch[q] = "failed"

\* the two requests of a run settle in either order
SecondSettlesFirst ==
    \E r \in DOMAIN bt :
        /\ bt[r].pc = "fetching"
        /\ bt[r].fetch = [p \in {"bifrost", "hydration"} |->
                             IF p = "hydration" THEN "ok" ELSE "pending"]

\* ------------------------------------------------- final-value claims
LastPoint(run) == run.timeSeries[Len(run.timeSeries)]

\* C28: summary.finalAmountUsd equals the total value of the last daily
\* point of the day loop, for every run and every option combination.
C28_FinalEqualsLastPoint ==
    \A r \in DOMAIN bt :
        bt[r].pc = "done" =>
            bt[r].summary.finalAmountUsd = LastPoint(bt[r]).totalValueUsd

\* the impermanent loss deducted from a run after its day loop
TotalILLoss(run) ==
    SumSeq([j \in 1..Len(run.allocStates) |->
               IF ILDeducted(run, j) THEN ExpectedILLoss(run.allocStates[j]) ELSE 0])

FinalValueStep(old, new) ==
    (old.pc = "loop" /\ new.pc = "done") =>
        /\ new.timeSeries = old.timeSeries
        /\ LastPoint(old).totalValueUsd = ToFixed4(old.prevTotalValue)
        /\ new.summary.finalAmountUsd =
               ToFixed4(old.prevTotalValue - TotalILLoss(old))
        /\ TotalILLoss(old) = 0 =>
               new.summary.finalAmountUsd = LastPoint(new).totalValueUsd

\* C28 (amended): summary.finalAmountUsd is the total value of the last daily
\* point less the impermanent loss deducted after the day loop; the two are
\* equal when no impermanent loss is deducted.
C28_FinalIsLastPointLessIL ==
    [][\A r \in {1} : FinalValueStep(bt[r], bt'[r])]_vars

\* a finished run whose reported final value is below its last daily point
C28_Witness ==
    \E r \in DOMAIN bt :
        /\ bt[r].pc = "done"
        /\ bt[r].summary.ilIncluded
        /\ bt[r].summary.finalAmountUsd < LastPoint(bt[r]).totalValueUsd

\* ------------------------------------------------- single-day claims
SingleDay(run) == run.pc = "done" /\ run.durationDays = 0

FiniteResult(run) ==
    /\ IsFinite(run.summary.totalReturnPercent)
    /\ IsFinite(run.summary.annualizedApyPercent)
    /\ IsFinite(run.summary.maxDrawdownPercent)
    /\ IsFinite(run.summary.sharpeRatio)
    /\ \A j \in 1..Len(run.breakdown) : IsFinite(run.breakdown[j].returnPercent)
    /\ \A k \in 1..Len(run.resultSeries) :
           IsFinite(run.resultSeries[k].dailyReturnPct)

\* C26: a run whose accepted period gives one day point (durationDays = 0)
\* returns an annualized return of 0 and a result of finite numbers.
C26_SingleDayFinite ==
    \A r \in DOMAIN bt :
        SingleDay(bt[r]) =>
            /\ bt[r].summary.annualizedApyPercent = Fin(0)
            /\ FiniteResult(bt[r])

\* the annualized return of every single-day run is 0, and the results of the
\* single-day runs over a positive amount are finite
SingleDayAnnualizedZero ==
    \A r \in DOMAIN bt :
        SingleDay(bt[r]) =>
            /\ bt[r].summary.annualizedApyPercent = Fin(0)
            /\ Len(bt[r].timeSeries) = 1
            /\ bt[r].dto.initialAmountUsd > 0 => FiniteResult(bt[r])

SingleDayReached ==
    \E r \in DOMAIN bt : SingleDay(bt[r]) /\ bt[r].dto.initialAmountUsd > 0

\* ------------------------------------------------- price-cache claims
\* every cache entry holds a positive price and a time that has been
CacheEntrySound(svc) ==
    svc.cache # None =>
        /\ svc.cache[1].price > 0
        /\ svc.cache[1].fetchedAt <= svc.clock

\* a write to the cache stores the positive price an upstream request of
\* some call has just answered with, and the time of the answer
CacheWriteSound(old, new) ==
    new.cache # old.cache =>
        /\ new.cache # None
        /\ new.cache[1].fetchedAt = old.clock
        /\ \E c \in Callers :
               /\ old.calls[c].pc \in {"llama", "gecko"}
               /\ new.calls[c].answer = Some(new.cache[1].price)
               /\ new.calls[c].result = new.cache[1].price

\* a call that finds an entry younger than the TTL returns its price and
\* makes no upstream request
FreshHit(old, new) ==
    \A c \in Callers :
        (/\ old.calls[c].pc \in {"idle", "returned"}
         /\ new.calls[c] # old.calls[c]
         /\ old.cache # None
         /\ old.clock - old.cache[1].fetchedAt < PriceCacheTtl) =>
            /\ new.calls[c].pc = "returned"
            /\ new.calls[c].result = old.cache[1].price
            /\ new.calls[c].fetches = 0
            /\ new.cache = old.cache

\* a call makes at most one request to each upstream
BoundedFetches(svc) == \A c \in Callers : svc.calls[c].fetches <= 2

\* C24: under any interleaving of getTokenPrice calls for one coin, a race on
\* a cache miss costs duplicate upstream fetches only: a cache entry always
\* holds a positive price answered by an upstream fetch with the time of
\* that answer, and a call that finds an entry younger than the TTL returns
\* its price without an upstream fetch.
C24_CacheRaceBenign ==
    /\ [](CacheEntrySound(priceSvc) /\ BoundedFetches(priceSvc))
    /\ [][CacheWriteSound(priceSvc, priceSvc') /\ FreshHit(priceSvc, priceSvc')]_vars

\* both calls missed and asked upstream; one has cached its answer, the
\* other is still waiting for its own
C24_Witness ==
    /\ priceSvc.cache # None
    /\ priceSvc.calls[1].pc = "returned"
    /\ priceSvc.calls[1].fetches = 1
    /\ priceSvc.calls[2].pc \in {"llama", "gecko"}

\* the second answer of a race has replaced the price of the first
RaceOverwrites ==
    /\ priceSvc.cache # None
    /\ \A c \in Callers : priceSvc.calls[c].pc = "returned"
    /\ \A c \in Callers : priceSvc.calls[c].fetches = 1
    /\ priceSvc.calls[1].result # priceSvc.calls[2].result

\* a call has returned the cached price without a request
HitReached ==
    \E c \in Callers :
        /\ priceSvc.calls[c].pc = "returned"
        /\ priceSvc.calls[c].fetches = 0
        /\ priceSvc.clock > 0

\* ------------------------------------------------- indexer claims
ActivePcs == {"checkpoint", "head", "loop", "final"}
ActiveRuns(idx) == {k \in Callers : idx.runs[k].pc \in ActivePcs}

\* at most one run is active, and isRunning says whether one is
OneActiveRun(idx) ==
    /\ Cardinality(ActiveRuns(idx)) <= 1
    /\ idx.isRunning <=> ActiveRuns(idx) # {}

\* what a caller does while a run is active starts nothing; a runIndexer
\* call fails with the message and a cron tick is skipped, both without a
\* change of the flag or the checkpoint
CallWhileRunning(old, new) ==
    \A k \in Callers :
        (/\ old.isRunning
         /\ old.runs[k].pc \in {"idle", "backfill"}
         /\ new.runs[k] # old.runs[k]) =>
            /\ new.isRunning
            /\ new.runs[k].pc \notin ActivePcs
            /\ new.runs[k].pc = "idle" =>
                   /\ new.checkpoint = old.checkpoint
                   /\ new.runs[k].outcome \in {"Indexer already running", "skipped"}
                   /\ old.runs[k].pc = "backfill" =>
                          new.runs[k].outcome = "Indexer already running"

\* the end of a run, completed or thrown, clears the flag
RunEnds(old, new, k) ==
    old.runs[k].pc \in ActivePcs /\ new.runs[k].pc = "idle"

FlagClearedAtEnd(old, new) ==
    \A k \in Callers :
        RunEnds(old, new, k) =>
            /\ ~new.isRunning
            /\ new.runs[k].outcome \in {"completed", "threw"}

\* C29: at most one runIndexer execution is active at any time; a runIndexer
\* call made while one is active fails with 'Indexer already running'
\* without changing isRunning or the checkpoint, a cron tick during a run is
\* skipped, and isRunning is false after every run, completed or thrown.
C29_SingleIndexerRun ==
    /\ [](OneActiveRun(indexer))
    /\ [][CallWhileRunning(indexer, indexer') /\ FlagClearedAtEnd(indexer, indexer')]_vars

\* a call has been turned away while the run of the other caller is in its
\* loop
C29_Witness ==
    \E k, m \in Callers :
        /\ indexer.runs[k].pc = "loop"
        /\ indexer.runs[m].pc = "idle"
        /\ indexer.runs[m].outcome = "Indexer already running"

CronSkipped ==
    \E k, m \in Callers :
        /\ indexer.runs[k].pc \in ActivePcs
        /\ indexer.runs[m].outcome = "skipped"

ThrownRunCleared ==
    \E k \in Callers :
        /\ indexer.runs[k].outcome = "threw"
        /\ ~indexer.isRunning

\* C30: when a run ends with the stored lastIndexedBlock at b, every snapshot
\* block of the run that is <= b was indexed successfully.
C30_CheckpointBehindFailures ==
    [][\A k \in Callers :
          (RunEnds(indexer, indexer', k) /\ indexer'.checkpoint # None) =>
              \A s \in indexer.runs[k].failed : s > indexer'.checkpoint[1]]_vars

\* while no block has failed, the checkpoint of a run is a block it indexed
\* or the block before its first
CheckpointFollowsSuccess ==
    \A k \in Callers :
        (/\ indexer.runs[k].pc = "loop"
         /\ indexer.runs[k].failed = {}
         /\ indexer.runs[k].succeeded # {}
         /\ indexer.calls = 1) =>
            indexer.checkpoint[1] \in indexer.runs[k].succeeded

\* ------------------------------------------------- run-isolation claims
\* a run on its own, as one computation from the request and the fetched
\* records: the day loop folded over the days
RECURSIVE SoloLoop(_, _, _, _)
SoloLoop(acc, dto, days, i) ==
    IF i >= Len(days) THEN acc
    ELSE LET grown == [j \in 1..Len(acc.states) |->
                          GrowState(acc.states[j], days[i + 1], i)]
             rebalance == isRebalanceDay(OrElse(dto.rebalanceIntervalDays, 0), i)
             fees == IF rebalance
                     THEN FeesThisRebalance(OrElse(dto.xcmFeeUsd, DefaultXcmFeeUsd), grown)
                     ELSE 0
             states == IF rebalance
                       THEN Redistribute(grown, TotalValue(grown) - fees)
                       ELSE grown
             total == TotalValue(states)
         IN  SoloLoop([states |-> states,
                       fees |-> acc.fees + fees,
                       count |-> acc.count + (IF rebalance THEN 1 ELSE 0),
                       peak |-> IF total > acc.peak THEN total ELSE acc.peak,
                       totals |-> Append(acc.totals, ToFixed4(total))],
                      dto, days, i + 1)

SoloResult(dto, cache) ==
    LET start == [j \in 1..Len(dto.allocations) |->
                     MakeAllocState(dto.allocations[j], cache, dto.initialAmountUsd)]
        end == SoloLoop([states |-> start, fees |-> 0, count |-> 0,
                         peak |-> dto.initialAmountUsd, totals |-> <<>>],
                        dto, buildDayList(dto.from, dto.to), 0)
        final == IF OrElse(dto.includeIL, FALSE)
                 THEN [j \in 1..Len(end.states) |-> ApplyIL(end.states[j])]
                 ELSE end.states
    IN  [finalAmountUsd |-> ToFixed4(TotalValue(final)),
         xcmFeesPaidUsd |-> ToFixed4(end.fees),
         rebalancedCount |-> end.count,
         peakValue |-> end.peak,
         totals |-> end.totals,
         states |-> final]

ResultOf(run) ==
    [finalAmountUsd |-> run.summary.finalAmountUsd,
     xcmFeesPaidUsd |-> run.summary.xcmFeesPaidUsd,
     rebalancedCount |-> run.summary.rebalancedCount,
     peakValue |-> run.peakValue,
     totals |-> [k \in 1..Len(run.timeSeries) |-> run.timeSeries[k].totalValueUsd],
     states |-> run.allocStates]

SameAsAlone(run) ==
    run.pc = "done" => ResultOf(run) = SoloResult(run.dto, run.cache)

\* a step of one invocation leaves the other invocation as it is
OneRunPerStep(old, new) ==
    \A r, q \in Callers : (r # q /\ new[r] # old[r]) => new[q] = old[q]

\* C25: two runBacktest invocations that interleave never touch each other's
\* allocation states or accumulators, and each returns what it returns when
\* it runs alone on the same fetched data.
C25_RunsIsolated ==
    /\ [](\A r \in Callers : SameAsAlone(bt[r]))
    /\ [][OneRunPerStep(bt, bt')]_vars

\* one invocation has returned while the other, with a different request,
\* is waiting for the second of its history requests
C25_Witness ==
    \E r, q \in Callers :
        /\ bt[r].pc = "done"
        /\ bt[r].summary.rebalancedCount > 0
        /\ bt[q].pc = "fetching"
        /\ bt[q].dto # bt[r].dto
        /\ \E p, o \in DOMAIN bt[q].fetch :
               bt[q].fetch[p] = "ok" /\ bt[q].fetch[o] = "pending"

\* both invocations are in their day loops at once
BothInLoop ==
    /\ bt[1].pc = "loop" /\ bt[1].i = 1
    /\ bt[2].pc = "loop" /\ bt[2].i = 2

=========================================================================
